---- MODULE Spec2Model ----
(***************************************************************************)
(* Donation-processing backend: the payment service's webhook state        *)
(* machine with its two idempotency layers, and the donation service's     *)
(* transactional outbox with its poller.                                   *)
(*                                                                         *)
(* Handlers are modelled one database / cache / broker interaction per     *)
(* step, so that concurrent handlers interleave where the code can be      *)
(* pre-empted.  PostgreSQL runs the sessions at READ COMMITTED: a row lock *)
(* taken by SELECT ... FOR UPDATE is held until the session's next commit  *)
(* or rollback.                                                            *)
(***************************************************************************)
EXTENDS Integers, Sequences, FiniteSets, TLC

(***************************************************************************)
(* Bounds of the model.                                                    *)
(***************************************************************************)
MaxTime == 1          \* clock values and event timestamps are 0..MaxTime
MaxKeys == 2          \* idempotency keys 1..MaxKeys
MaxHandlers == 2      \* concurrent webhook handler workers
MaxRequests == 2      \* webhook requests accepted in one behaviour
MaxIntents == 1       \* payment intents created in one behaviour

Keys == 1..MaxKeys
Handlers == 1..MaxHandlers
IntentIds == 1..MaxIntents
Times == 0..MaxTime

(***************************************************************************)
(* payment-service: state machine (utils/state_machine.py)                 *)
(***************************************************************************)
Statuses == {"INITIATED", "AUTHORIZED", "CAPTURED", "FAILED", "REFUNDED"}

VALID_TRANSITIONS ==
    [s \in Statuses |->
        CASE s = "INITIATED"  -> {"AUTHORIZED", "FAILED"}
          [] s = "AUTHORIZED" -> {"CAPTURED", "FAILED", "REFUNDED"}
          [] s = "CAPTURED"   -> {"REFUNDED"}
          [] s = "FAILED"     -> {}
          [] s = "REFUNDED"   -> {}]

\* Mutant: every move to another status is accepted.
validate_state_transition_any(current_status, new_status) ==
    new_status # current_status

validate_state_transition(current_status, new_status) ==
    new_status \in VALID_TRANSITIONS[current_status]

(***************************************************************************)
(* payment-service: data                                                   *)
(***************************************************************************)
\* gateway_response: the creation snapshot, or the data of the last applied
\* event that carried data.
EventData == {"none", "d"}

\* A parsed WebhookEvent (app/schemas.py): the intent it names, the proposed
\* status, the event timestamp and the optional data.
WebhookEvents ==
    [intent : IntentIds, status : Statuses, ts : Times, data : EventData]

NoEvent == [intent |-> 0, status |-> "-", ts |-> 0, data |-> "none"]

\* A response: status code and body.  The body of a processed response holds
\* old_status, new_status and version; the body of a rejected response holds
\* the message "Invalid state transition: old -> new".
NoResp == [code |-> 0, kind |-> "none", old |-> "-", new |-> "-", version |-> 0]

NotFoundResp ==
    [code |-> 404, kind |-> "not_found", old |-> "-", new |-> "-", version |-> 0]

IgnoredResp ==
    [code |-> 200, kind |-> "ignored", old |-> "-", new |-> "-", version |-> 0]

RejectedResp(cur, proposed) ==
    [code |-> 400, kind |-> "rejected", old |-> cur, new |-> proposed, version |-> 0]

ProcessedResp(old, new, version) ==
    [code |-> 200, kind |-> "processed", old |-> old, new |-> new, version |-> version]

ErrorResp ==
    [code |-> 500, kind |-> "error", old |-> "-", new |-> "-", version |-> 0]

VARIABLES
    now,        \* the service clock (datetime.utcnow)
    payments,   \* payment_transactions: intent id -> row, committed state
    lock,       \* intent id -> handler holding the row lock, 0 when free
    history,    \* payment_state_history rows, in insertion order
    published,  \* messages on the payments.events exchange, in order
    L1,         \* Redis: key -> stored response, NoResp when absent
    L2,         \* idempotency_keys table: key -> stored response
    pc,         \* handler -> position in handle_webhook
    hkey,       \* handler -> idempotency key of its request
    hev,        \* handler -> parsed event of its request
    hresp,      \* handler -> response it is about to record and return
    hold,       \* handler -> old_status local of the processing path
    hpay,       \* handler -> its session's copy of the payment row
    returned,   \* key -> set of responses returned to requests with that key
    nreq        \* webhook requests accepted so far

payVars ==
    <<now, payments, lock, history, published, L1, L2, pc, hkey, hev, hresp,
      hold, hpay, returned, nreq>>

\* The donation service's state.
VARIABLES
    donations,  \* donations table: id -> row, committed state
    outbox,     \* outbox_events table: id -> row, NoRow when absent
    nextRow,    \* next value of the outbox_events id sequence
    rowlock,    \* outbox row id -> poller holding its row lock, 0 when free
    delivered,  \* messages the donations.events exchange has received
    brokerUp,   \* whether RabbitMQ accepts connections and publishes
    ureq,       \* updater -> the status update it is handling, or idle
    ppc,        \* poller -> position in process_batch
    batch,      \* poller -> events of its batch still to handle
    pview,      \* poller -> retry_count its session holds for the event
    pfresh,     \* poller -> the session's objects are loaded, not expired
    psuccess    \* poller -> result of publish_event for the event

outVars ==
    <<donations, outbox, nextRow, rowlock, delivered, brokerUp, ureq, ppc,
      batch, pview, pfresh, psuccess>>

\* The bank service's state.
VARIABLES
    accounts,   \* bank_accounts: account number -> row, committed state
    alock,      \* account number -> transfer handler holding its row lock
    ledger,     \* transactions table: id -> row, NoEntry when absent
    nextTx,     \* next transaction id
    bL1,        \* Redis: transfer key -> stored response (transaction id)
    bL2,        \* transfer_idempotency: key -> stored response
    bevents,    \* transaction ids published on the bank.events exchange
    tpc,        \* transfer handler -> position in create_transfer
    treq,       \* transfer handler -> its request
    ttx,        \* transfer handler -> id of the transaction it committed
    treturned,  \* key -> set of responses returned to requests with that key
    ntransfers, \* transfer requests accepted so far
    rpc,        \* reverser -> position in reverse_transaction
    rtx,        \* reverser -> id of the original transaction
    rfrom,      \* reverser -> its session's copy of the original's source
    rto,        \* reverser -> its session's copy of the original's destination
    bnow        \* the bank service's clock (datetime.utcnow)

bankVars ==
    <<accounts, alock, ledger, nextTx, bL1, bL2, bevents, tpc, treq, ttx,
      treturned, ntransfers, rpc, rtx, rfrom, rto, bnow>>

\* The notification service's state.
VARIABLES
    nqueue,         \* notifications.queue: message -> copies waiting
    npublished,     \* messages routed to the queue so far
    npc,            \* position of the consumer's callback
    nmsg,           \* the unacknowledged message the callback is handling
    nsuccess,       \* result of send_email in the callback
    notifications,  \* notifications table rows, in insertion order
    emails,         \* message -> confirmation emails sent for it
    npoison         \* deliveries of the undecodable message to the callback

notifVars ==
    <<nqueue, npublished, npc, nmsg, nsuccess, notifications, emails, npoison>>

\* The totals service's state, for one campaign.
VARIABLES
    tdon,       \* donations of the campaign: id -> status
    tcache,     \* Redis entry campaign_totals:<id>, NoTotals when absent
    tttl,       \* the expiry the Redis entry was stored with, 0 when absent
    tview,      \* the campaign's row of the materialized view campaign_totals
    tqueue,     \* donations whose PaymentStatus.CAPTURED event is queued
    thandled,   \* donations whose event the consumer has acknowledged
    tnext,      \* handled donations no normal-mode GET has started after
    gpc,        \* GET handler -> position in get_campaign_totals
    grt,        \* GET handler -> the realtime query parameter
    gdata,      \* GET handler -> the totals it holds
    gseen,      \* GET handler -> completed, handled donations it is next for
    ganswer     \* GET handler -> the totals it last returned

totVars ==
    <<tdon, tcache, tttl, tview, tqueue, thandled, tnext, gpc, grt, gdata, gseen,
      ganswer>>

vars == <<payVars, outVars, bankVars, notifVars, totVars>>

NoPay == [status |-> "-", version |-> 0, updated_at |-> 0, snapshot |-> "none"]

InitPay ==
    /\ now = 0
    /\ payments = [p \in IntentIds |-> NoPay]
    /\ lock = [p \in IntentIds |-> 0]
    /\ history = << >>
    /\ published = << >>
    /\ L1 = [k \in Keys |-> NoResp]
    /\ L2 = [k \in Keys |-> NoResp]
    /\ pc = [h \in Handlers |-> "idle"]
    /\ hkey = [h \in Handlers |-> 0]
    /\ hev = [h \in Handlers |-> NoEvent]
    /\ hresp = [h \in Handlers |-> NoResp]
    /\ hold = [h \in Handlers |-> "-"]
    /\ hpay = [h \in Handlers |-> NoPay]
    /\ returned = [k \in Keys |-> {}]
    /\ nreq = 0

(***************************************************************************)
(* payment-service: handle_webhook (app/api/payments.py)                   *)
(***************************************************************************)
\* Mutant: the transition is validated before the timestamp is compared.
WebhookOutcome_validate_first(pay, ev) ==
    IF pay = NoPay THEN "not_found"
    ELSE IF ~validate_state_transition(pay.status, ev.status) THEN "rejected"
    ELSE IF ev.ts < pay.updated_at THEN "ignored"
    ELSE "processed"

\* The branch the processing path takes for the locked row and the event.
WebhookOutcome(pay, ev) ==
    IF pay = NoPay THEN "not_found"
    ELSE IF ev.ts < pay.updated_at THEN "ignored"
    ELSE IF ~validate_state_transition(pay.status, ev.status) THEN "rejected"
    ELSE "processed"

\* Mutant: the version is left as it was.
ApplyTransition_same_version(pay, ev) ==
    [pay EXCEPT !.status = ev.status,
                !.updated_at = ev.ts,
                !.snapshot = IF ev.data # "none" THEN ev.data ELSE @]

\* The accepted transition written to the row.
ApplyTransition(pay, ev) ==
    [pay EXCEPT !.status = ev.status,
                !.version = @ + 1,
                !.updated_at = ev.ts,
                !.snapshot = IF ev.data # "none" THEN ev.data ELSE @]

\* Mutant: the gateway snapshot is stored before the event is validated.
WebhookPayment_snapshot_first(pay, ev) ==
    IF WebhookOutcome(pay, ev) = "processed" THEN ApplyTransition(pay, ev)
    ELSE IF pay # NoPay /\ ev.data # "none" THEN [pay EXCEPT !.snapshot = ev.data]
    ELSE pay

\* The row the processing path leaves committed.
WebhookPayment(pay, ev) ==
    IF WebhookOutcome(pay, ev) = "processed" THEN ApplyTransition(pay, ev)
    ELSE pay

\* The response the processing path of a request that changes nothing builds.
RefusalResp(pay, ev) ==
    CASE WebhookOutcome(pay, ev) = "not_found" -> NotFoundResp
      [] WebhookOutcome(pay, ev) = "ignored"   -> IgnoredResp
      [] OTHER                                 -> RejectedResp(pay.status, ev.status)

HistoryRow(p, old, ev, k, version) ==
    [payment_id |-> p, from_status |-> old, to_status |-> ev.status,
     event_id |-> k, event_timestamp |-> ev.ts, version |-> version]

PaymentMessage(event_type, p, pay) ==
    [event_type |-> event_type, payment_id |-> p, status |-> pay.status]

\* The handler returns `r` to its caller and the worker becomes free.
Respond(h, r) ==
    /\ returned' = [returned EXCEPT ![hkey[h]] = @ \cup {r}]
    /\ pc' = [pc EXCEPT ![h] = "idle"]
    /\ hkey' = [hkey EXCEPT ![h] = 0]
    /\ hev' = [hev EXCEPT ![h] = NoEvent]
    /\ hresp' = [hresp EXCEPT ![h] = NoResp]
    /\ hold' = [hold EXCEPT ![h] = "-"]
    /\ hpay' = [hpay EXCEPT ![h] = NoPay]

\* A webhook request with key k and body ev is given to the first free
\* worker.
WebhookStart(h, k, ev) ==
    /\ pc[h] = "idle"
    /\ \A g \in Handlers : g < h => pc[g] # "idle"
    /\ nreq < MaxRequests
    /\ nreq' = nreq + 1
    /\ pc' = [pc EXCEPT ![h] = "check_l1"]
    /\ hkey' = [hkey EXCEPT ![h] = k]
    /\ hev' = [hev EXCEPT ![h] = ev]
    /\ UNCHANGED <<now, payments, lock, history, published, L1, L2, hresp,
                   hold, hpay, returned>>
    /\ UNCHANGED <<outVars, bankVars, notifVars, totVars>>

\* check_idempotency_cache: a hit replays the stored response.
CheckL1(h) ==
    /\ pc[h] = "check_l1"
    /\ IF L1[hkey[h]] # NoResp
       THEN Respond(h, L1[hkey[h]])
       ELSE /\ pc' = [pc EXCEPT ![h] = "check_l2"]
            /\ UNCHANGED <<hkey, hev, hresp, hold, hpay, returned>>
    /\ UNCHANGED <<now, payments, lock, history, published, L1, L2, nreq>>
    /\ UNCHANGED <<outVars, bankVars, notifVars, totVars>>

\* check_idempotency_db: a hit warms Redis and replays the stored response.
CheckL2(h) ==
    /\ pc[h] = "check_l2"
    /\ IF L2[hkey[h]] # NoResp
       THEN /\ L1' = [L1 EXCEPT ![hkey[h]] = L2[hkey[h]]]
            /\ Respond(h, L2[hkey[h]])
       ELSE /\ pc' = [pc EXCEPT ![h] = "select"]
            /\ UNCHANGED <<L1, hkey, hev, hresp, hold, hpay, returned>>
    /\ UNCHANGED <<now, payments, lock, history, published, L2, nreq>>
    /\ UNCHANGED <<outVars, bankVars, notifVars, totVars>>

\* SELECT ... FOR UPDATE of the intent's row (it waits while another session
\* holds the row lock), then the processing path up to the point where the
\* session next touches Redis or commits.  A refusal keeps the row lock
\* until save_idempotency_record commits; an accepted transition is
\* committed here, which releases it.
ProcessWebhook(h) ==
    /\ pc[h] = "select"
    /\ LET p   == hev[h].intent
           pay == payments[p]
           out == WebhookOutcome(pay, hev[h])
       IN  /\ pay # NoPay => lock[p] = 0
           /\ payments' = [payments EXCEPT ![p] = WebhookPayment(pay, hev[h])]
           /\ IF out = "processed"
              THEN /\ history' = Append(history,
                           HistoryRow(p, pay.status, hev[h], hkey[h],
                                      payments'[p].version))
                   /\ hold' = [hold EXCEPT ![h] = pay.status]
                   /\ pc' = [pc EXCEPT ![h] = "refresh"]
                   /\ UNCHANGED <<lock, hresp>>
              ELSE /\ hresp' = [hresp EXCEPT ![h] = RefusalResp(pay, hev[h])]
                   /\ lock' = IF pay # NoPay THEN [lock EXCEPT ![p] = h] ELSE lock
                   /\ pc' = [pc EXCEPT ![h] = "save_l1"]
                   /\ UNCHANGED <<history, hold>>
    /\ UNCHANGED <<now, published, L1, L2, hkey, hev, hpay, returned, nreq>>
    /\ UNCHANGED <<outVars, bankVars, notifVars, totVars>>

\* db.refresh(payment): the session reloads the row as now committed.
RefreshPayment(h) ==
    /\ pc[h] = "refresh"
    /\ hpay' = [hpay EXCEPT ![h] = payments[hev[h].intent]]
    /\ pc' = [pc EXCEPT ![h] = "publish"]
    /\ UNCHANGED <<now, payments, lock, history, published, L1, L2, hkey, hev,
                   hresp, hold, returned, nreq>>
    /\ UNCHANGED <<outVars, bankVars, notifVars, totVars>>

\* publish_payment_event (utils/messaging.py): a broker failure is caught
\* and printed; then the processed response is built.
PublishStatus(h) ==
    /\ pc[h] = "publish"
    /\ \E ok \in BOOLEAN :
          published' =
              IF ok
              THEN Append(published,
                          PaymentMessage(<<"PaymentStatus", hev[h].status>>,
                                         hev[h].intent, hpay[h]))
              ELSE published
    /\ hresp' = [hresp EXCEPT ![h] =
                    ProcessedResp(hold[h], hpay[h].status, hpay[h].version)]
    /\ pc' = [pc EXCEPT ![h] = "save_l1"]
    /\ UNCHANGED <<now, payments, lock, history, L1, L2, hkey, hev, hold, hpay,
                   returned, nreq>>
    /\ UNCHANGED <<outVars, bankVars, notifVars, totVars>>

\* The row locks of handler h's session are released (commit or rollback).
ReleaseLocks(h) ==
    [p \in IntentIds |-> IF lock[p] = h THEN 0 ELSE lock[p]]

\* save_idempotency_record, first half: SETEX in Redis.  A Redis error
\* propagates to handle_webhook's except clause: rollback and a 500.
SaveL1(h) ==
    /\ pc[h] = "save_l1"
    /\ \/ /\ L1' = [L1 EXCEPT ![hkey[h]] = hresp[h]]
          /\ pc' = [pc EXCEPT ![h] = "save_l2"]
          /\ UNCHANGED <<lock, hkey, hev, hresp, hold, hpay, returned>>
       \/ /\ lock' = ReleaseLocks(h)
          /\ Respond(h, ErrorResp)
          /\ UNCHANGED L1
    /\ UNCHANGED <<now, payments, history, published, L2, nreq>>
    /\ UNCHANGED <<outVars, bankVars, notifVars, totVars>>

\* INSERT into idempotency_keys and commit; a primary-key conflict raises
\* IntegrityError, which is rolled back and otherwise ignored.
StoreL2(table, k, r) ==
    IF table[k] = NoResp THEN [table EXCEPT ![k] = r] ELSE table

\* save_idempotency_record, second half, and the return of the response.
\* A database error other than IntegrityError leaves save_idempotency_record
\* and reaches handle_webhook's except clause: rollback and a 500.
SaveL2(h) ==
    /\ pc[h] = "save_l2"
    /\ \/ /\ L2' = StoreL2(L2, hkey[h], hresp[h])
          /\ Respond(h, hresp[h])
       \/ /\ UNCHANGED L2
          /\ Respond(h, ErrorResp)
    /\ lock' = ReleaseLocks(h)
    /\ UNCHANGED <<now, payments, history, published, L1, nreq>>
    /\ UNCHANGED <<outVars, bankVars, notifVars, totVars>>

(***************************************************************************)
(* payment-service: create_payment_intent, refund_payment, environment     *)
(***************************************************************************)
NewPayment(t) ==
    [status |-> "INITIATED", version |-> 1, updated_at |-> t,
     snapshot |-> "client_secret"]

CreatePaymentIntent(p) ==
    /\ payments[p] = NoPay
    /\ \A q \in IntentIds : q < p => payments[q] # NoPay
    /\ payments' = [payments EXCEPT ![p] = NewPayment(now)]
    /\ UNCHANGED <<now, lock, history, published, L1, L2, pc, hkey, hev, hresp,
                   hold, hpay, returned, nreq>>
    /\ UNCHANGED <<outVars, bankVars, notifVars, totVars>>

RefundTransition(pay, t) ==
    [pay EXCEPT !.status = "REFUNDED", !.version = @ + 1, !.updated_at = t]

Refundable(pay) ==
    pay.status = "CAPTURED"

\* refund_payment: SELECT ... FOR UPDATE, the status test, the update and
\* the commit, then publish_payment_event (which swallows broker errors).
\* REFUNDED is terminal, so the row the publisher reloads is the one written.
RefundPayment(p) ==
    /\ payments[p] # NoPay
    /\ lock[p] = 0
    /\ IF Refundable(payments[p])
       THEN /\ payments' = [payments EXCEPT ![p] = RefundTransition(@, now)]
            /\ \E ok \in BOOLEAN :
                  published' =
                      IF ok
                      THEN Append(published,
                                  PaymentMessage(<<"PaymentRefunded">>, p,
                                                 payments'[p]))
                      ELSE published
       ELSE UNCHANGED <<payments, published>>
    /\ UNCHANGED <<now, lock, history, L1, L2, pc, hkey, hev, hresp, hold, hpay,
                   returned, nreq>>
    /\ UNCHANGED <<outVars, bankVars, notifVars, totVars>>

\* Time passes.
Tick ==
    /\ now < MaxTime
    /\ now' = now + 1
    /\ UNCHANGED <<payments, lock, history, published, L1, L2, pc, hkey, hev,
                   hresp, hold, hpay, returned, nreq>>
    /\ UNCHANGED <<outVars, bankVars, notifVars, totVars>>

\* The Redis entry of key k reaches its TTL (settings.idempotency_ttl).
ExpireL1(k) ==
    /\ L1[k] # NoResp
    /\ L1' = [L1 EXCEPT ![k] = NoResp]
    /\ UNCHANGED <<now, payments, lock, history, published, L2, pc, hkey, hev,
                   hresp, hold, hpay, returned, nreq>>
    /\ UNCHANGED <<outVars, bankVars, notifVars, totVars>>

\* The event the gateway sends under key k, all for intent 1: AUTHORIZED at
\* the earliest timestamp under key 1, CAPTURED at the latest under the
\* other keys.
GatewayEvent(k) ==
    [intent |-> 1,
     status |-> IF k = 1 THEN "AUTHORIZED" ELSE "CAPTURED",
     ts     |-> IF k = 1 THEN 0 ELSE MaxTime,
     data   |-> "d"]

\* The gateway delivers, or delivers again, its event of key k for the
\* created intent; the request is given to the first free worker.  The
\* gateway retries without limit.
GatewayDeliver(h, k) ==
    /\ pc[h] = "idle"
    /\ \A g \in Handlers : g < h => pc[g] # "idle"
    /\ payments[GatewayEvent(k).intent] # NoPay
    /\ pc' = [pc EXCEPT ![h] = "check_l1"]
    /\ hkey' = [hkey EXCEPT ![h] = k]
    /\ hev' = [hev EXCEPT ![h] = GatewayEvent(k)]
    /\ UNCHANGED <<now, payments, lock, history, published, L1, L2, hresp,
                   hold, hpay, returned, nreq>>
    /\ UNCHANGED <<outVars, bankVars, notifVars, totVars>>

\* The webhook handlers fed by the gateway's deliveries for one intent,
\* within the lifetime of the Redis entries (idempotency_ttl, 24 hours).
NextGateway ==
    \/ \E h \in Handlers, k \in Keys : GatewayDeliver(h, k)
    \/ \E h \in Handlers : CheckL1(h)
    \/ \E h \in Handlers : CheckL2(h)
    \/ \E h \in Handlers : ProcessWebhook(h)
    \/ \E h \in Handlers : RefreshPayment(h)
    \/ \E h \in Handlers : PublishStatus(h)
    \/ \E h \in Handlers : SaveL1(h)
    \/ \E h \in Handlers : SaveL2(h)
    \/ \E p \in IntentIds : CreatePaymentIntent(p)

NextPay ==
    \/ \E h \in Handlers, k \in Keys, ev \in WebhookEvents : WebhookStart(h, k, ev)
    \/ \E h \in Handlers : CheckL1(h)
    \/ \E h \in Handlers : CheckL2(h)
    \/ \E h \in Handlers : ProcessWebhook(h)
    \/ \E h \in Handlers : RefreshPayment(h)
    \/ \E h \in Handlers : PublishStatus(h)
    \/ \E h \in Handlers : SaveL1(h)
    \/ \E h \in Handlers : SaveL2(h)
    \/ \E p \in IntentIds : CreatePaymentIntent(p)
    \/ \E p \in IntentIds : RefundPayment(p)
    \/ Tick
    \/ \E k \in Keys : ExpireL1(k)


(***************************************************************************)
(* donation-service: data (app/models.py, app/schemas.py)                  *)
(***************************************************************************)
MaxDonations == 1     \* donations created in one behaviour
MaxRows == 3          \* outbox rows inserted in one behaviour
MaxUpdaters == 2      \* concurrent status-update handlers
NumPollers == 2       \* outbox processor instances

\* The outbox processor's settings, read from the environment variables
\* MAX_RETRIES (default 10) and BATCH_SIZE (default 100); the model runs a
\* deployment with small values.
MAX_RETRIES == 2
BATCH_SIZE == 2

\* Field(gt=0, le=1000000) of DonationCreate.amount.
MAX_PLEDGE == 1000000

DonationIds == 1..MaxDonations
RowIds == 1..MaxRows
Updaters == 1..MaxUpdaters
Pollers == 1..NumPollers

\* Amounts requests are made with.
Amounts == {0, MAX_PLEDGE, MAX_PLEDGE + 1}

\* DonationStatusUpdate.status: pattern ^(PENDING|COMPLETED|FAILED|REFUNDED)$
DonationStatuses == {"PENDING", "COMPLETED", "FAILED", "REFUNDED"}

\* Statuses status updates are requested with.
StatusInputs == {"COMPLETED"}

NoDonation == [status |-> "-", version |-> 0, amount |-> 0]

\* processed_at is NULL ("null") or the time the row was marked ("set").
NoRow == [aggregate_id |-> 0, event_type |-> <<>>, processed_at |-> "null",
          retry_count |-> 0]

NoUpdate == [donation |-> 0, status |-> "-", version |-> 0]

InitOut ==
    /\ donations = [d \in DonationIds |-> NoDonation]
    /\ outbox = [r \in RowIds |-> NoRow]
    /\ nextRow = 1
    /\ rowlock = [r \in RowIds |-> 0]
    /\ delivered = {}
    /\ brokerUp = TRUE
    /\ ureq = [u \in Updaters |-> NoUpdate]
    /\ ppc = [i \in Pollers |-> "idle"]
    /\ batch = [i \in Pollers |-> << >>]
    /\ pview = [i \in Pollers |-> 0]
    /\ pfresh = [i \in Pollers |-> FALSE]
    /\ psuccess = [i \in Pollers |-> FALSE]

(***************************************************************************)
(* donation-service: create_donation, update_donation_status               *)
(***************************************************************************)
\* DonationCreate validation: Field(gt=0, le=1000000) and validate_amount.
ValidAmount(a) == a > 0 /\ a <= MAX_PLEDGE

\* create_outbox_event: the row added to the session.
OutboxRow(d, event_type) ==
    [aggregate_id |-> d, event_type |-> event_type, processed_at |-> "null",
     retry_count |-> 0]

\* Mutant: create_donation commits the donation before the event is added,
\* so the event is lost.
CreateCommit_no_event(table, id, d) ==
    table

\* The outbox table after the transaction that inserts donation d commits.
CreateCommit(table, id, d) ==
    [table EXCEPT ![id] = OutboxRow(d, <<"DonationCreated">>)]

\* POST /api/v1/donations.  An invalid amount is refused with 422 before the
\* handler runs; a failure of flush or commit rolls everything back (500).
CreateDonation(d, a) ==
    /\ donations[d] = NoDonation
    /\ \A e \in DonationIds : e < d => donations[e] # NoDonation
    /\ nextRow <= MaxRows
    /\ \/ /\ ~ValidAmount(a)
          /\ UNCHANGED <<donations, outbox, nextRow>>
       \/ /\ ValidAmount(a)
          /\ donations' = [donations EXCEPT ![d] =
                              [status |-> "PENDING", version |-> 1, amount |-> a]]
          /\ outbox' = CreateCommit(outbox, nextRow, d)
          /\ nextRow' = nextRow + 1
       \/ /\ ValidAmount(a)
          /\ UNCHANGED <<donations, outbox, nextRow>>
    /\ UNCHANGED <<rowlock, delivered, brokerUp, ureq, ppc, batch, pview,
                   pfresh, psuccess>>
    /\ UNCHANGED <<payVars, bankVars, notifVars, totVars>>

\* PATCH /api/v1/donations/{id}/status, first half: the handler loads the
\* donation (no row lock); an unknown id is answered 404.
UpdateRead(u, d, s) ==
    /\ ureq[u] = NoUpdate
    /\ \A v \in Updaters : v < u => ureq[v] # NoUpdate
    /\ nextRow <= MaxRows
    /\ IF donations[d] = NoDonation
       THEN UNCHANGED ureq
       ELSE ureq' = [ureq EXCEPT ![u] =
                        [donation |-> d, status |-> s,
                         version |-> donations[d].version]]
    /\ UNCHANGED <<donations, outbox, nextRow, rowlock, delivered, brokerUp,
                   ppc, batch, pview, pfresh, psuccess>>
    /\ UNCHANGED <<payVars, bankVars, notifVars, totVars>>

\* Second half: status and version + 1 are written and the
\* DonationStatusChanged.<status> event is added, in one transaction; a
\* failure rolls both back (500).
UpdateCommit(u) ==
    /\ ureq[u] # NoUpdate
    /\ LET d == ureq[u].donation
           s == ureq[u].status
       IN  \/ /\ nextRow <= MaxRows
              /\ donations' = [donations EXCEPT ![d] =
                                  [@ EXCEPT !.status = s,
                                            !.version = ureq[u].version + 1]]
              /\ outbox' = [outbox EXCEPT ![nextRow] =
                              OutboxRow(d, <<"DonationStatusChanged", s>>)]
              /\ nextRow' = nextRow + 1
           \/ UNCHANGED <<donations, outbox, nextRow>>
    /\ ureq' = [ureq EXCEPT ![u] = NoUpdate]
    /\ UNCHANGED <<rowlock, delivered, brokerUp, ppc, batch, pview, pfresh,
                   psuccess>>
    /\ UNCHANGED <<payVars, bankVars, notifVars, totVars>>

(***************************************************************************)
(* donation-service: OutboxProcessor (outbox_processor.py)                 *)
(***************************************************************************)
RECURSIVE FirstN(_, _)
\* The first n elements of a set of row ids, in ascending order
\* (ORDER BY created_at LIMIT n; ids are assigned in insertion order).
FirstN(S, n) ==
    IF n = 0 \/ S = {} THEN << >>
    ELSE LET m == CHOOSE x \in S : \A y \in S : x <= y
         IN  <<m>> \o FirstN(S \ {m}, n - 1)

\* The WHERE clause of the batch query, and SKIP LOCKED.
Eligible(table, locks, r) ==
    /\ table[r] # NoRow
    /\ table[r].processed_at = "null"
    /\ table[r].retry_count < MAX_RETRIES
    /\ locks[r] = 0

\* The batch query of process_batch.
SelectBatch(table, locks) ==
    FirstN({r \in RowIds : Eligible(table, locks, r)}, BATCH_SIZE)

SeqToSet(q) == {q[i] : i \in 1..Len(q)}

\* The row locks of poller i's session are released (commit or rollback).
ReleaseRowLocks(i) ==
    [r \in RowIds |-> IF rowlock[r] = i THEN 0 ELSE rowlock[r]]

\* process_batch up to the loop: the batch is selected FOR UPDATE SKIP
\* LOCKED, which locks its rows and loads them into the session.  With no
\* eligible row the call returns 0 and the poller sleeps.
PollSelect(i) ==
    /\ ppc[i] = "idle"
    /\ LET events == SelectBatch(outbox, rowlock)
       IN  /\ events # << >>
           /\ batch' = [batch EXCEPT ![i] = events]
           /\ rowlock' = [r \in RowIds |->
                             IF r \in SeqToSet(events) THEN i ELSE rowlock[r]]
           /\ pview' = [pview EXCEPT ![i] = outbox[events[1]].retry_count]
           /\ pfresh' = [pfresh EXCEPT ![i] = TRUE]
           /\ ppc' = [ppc EXCEPT ![i] = "publish"]
    /\ UNCHANGED <<donations, outbox, nextRow, delivered, brokerUp, ureq, psuccess>>
    /\ UNCHANGED <<payVars, bankVars, notifVars, totVars>>

\* The batch is abandoned: an exception reaches process_batch's except
\* clause, which rolls back; the poller sleeps until the next poll.
AbortBatch(i) ==
    /\ rowlock' = ReleaseRowLocks(i)
    /\ batch' = [batch EXCEPT ![i] = << >>]
    /\ pview' = [pview EXCEPT ![i] = 0]
    /\ pfresh' = [pfresh EXCEPT ![i] = FALSE]
    /\ psuccess' = [psuccess EXCEPT ![i] = FALSE]
    /\ ppc' = [ppc EXCEPT ![i] = "idle"]

OutboxMessage(r, row) ==
    [event_id |-> r, event_type |-> row.event_type,
     aggregate_id |-> row.aggregate_id]

\* publish_event for the next event of the batch.  After the first commit
\* of the batch the session's objects are expired, so reading event.id
\* reloads the row as now committed (without locking it); a row deleted in
\* the meantime raises.  basic_publish succeeds when the broker is up.
PollPublish(i) ==
    /\ ppc[i] = "publish"
    /\ LET r == Head(batch[i])
       IN  IF ~pfresh[i] /\ outbox[r] = NoRow
           THEN /\ AbortBatch(i)
                /\ UNCHANGED delivered
           ELSE /\ pview' = [pview EXCEPT ![i] =
                                IF pfresh[i] THEN @ ELSE outbox[r].retry_count]
                /\ pfresh' = [pfresh EXCEPT ![i] = TRUE]
                /\ psuccess' = [psuccess EXCEPT ![i] = brokerUp]
                /\ delivered' = IF brokerUp
                                THEN delivered \cup {OutboxMessage(r, outbox[r])}
                                ELSE delivered
                /\ ppc' = [ppc EXCEPT ![i] = "commit"]
                /\ UNCHANGED <<rowlock, batch>>
    /\ UNCHANGED <<donations, outbox, nextRow, brokerUp, ureq>>
    /\ UNCHANGED <<payVars, bankVars, notifVars, totVars>>

\* Mutant: a failed publish is not counted.
EventOutcome_no_retry_count(row, success, seen) ==
    IF success THEN [row EXCEPT !.processed_at = "set"] ELSE row

\* The event after the loop body: processed_at = utcnow() on success,
\* retry_count = (the value the session holds) + 1 on failure.
EventOutcome(row, success, seen) ==
    IF success THEN [row EXCEPT !.processed_at = "set"]
    ELSE [row EXCEPT !.retry_count = seen + 1]

\* The loop body's assignment and db.commit(): the UPDATE waits for another
\* session's lock on the row; the commit releases every lock of the session
\* and expires its objects.  Then the next event, or the end of the batch.
PollCommit(i) ==
    /\ ppc[i] = "commit"
    /\ LET r == Head(batch[i])
       IN  /\ rowlock[r] \in {0, i}
           /\ IF outbox[r] = NoRow
              THEN /\ AbortBatch(i)
                   /\ UNCHANGED outbox
              ELSE /\ outbox' = [outbox EXCEPT ![r] =
                                    EventOutcome(@, psuccess[i], pview[i])]
                   /\ rowlock' = ReleaseRowLocks(i)
                   /\ batch' = [batch EXCEPT ![i] = Tail(@)]
                   /\ pview' = [pview EXCEPT ![i] = 0]
                   /\ pfresh' = [pfresh EXCEPT ![i] = FALSE]
                   /\ psuccess' = [psuccess EXCEPT ![i] = FALSE]
                   /\ ppc' = [ppc EXCEPT ![i] =
                                 IF Tail(batch[i]) = << >> THEN "idle" ELSE "publish"]
    /\ UNCHANGED <<donations, nextRow, delivered, brokerUp, ureq>>
    /\ UNCHANGED <<payVars, bankVars, notifVars, totVars>>

\* cleanup_old_events, which run() calls between two batches (every 100th
\* iteration): the processed rows whose processed_at is more than 7 days
\* old, here the rows of S, are deleted.
Cleanup(i, S) ==
    /\ ppc[i] = "idle"
    /\ S # {}
    /\ \A r \in S : outbox[r] # NoRow /\ outbox[r].processed_at # "null"
    /\ outbox' = [r \in RowIds |-> IF r \in S THEN NoRow ELSE outbox[r]]
    /\ UNCHANGED <<donations, nextRow, rowlock, delivered, brokerUp, ureq, ppc,
                   batch, pview, pfresh, psuccess>>
    /\ UNCHANGED <<payVars, bankVars, notifVars, totVars>>

\* The broker becomes unreachable, or reachable again.
BrokerFlip ==
    /\ brokerUp' = ~brokerUp
    /\ UNCHANGED <<donations, outbox, nextRow, rowlock, delivered, ureq,
                   ppc, batch, pview, pfresh, psuccess>>
    /\ UNCHANGED <<payVars, bankVars, notifVars, totVars>>

PollerStep(i) ==
    \/ PollSelect(i)
    \/ PollPublish(i)
    \/ PollCommit(i)

NextOut ==
    \/ \E d \in DonationIds, a \in Amounts : CreateDonation(d, a)
    \/ \E u \in Updaters, d \in DonationIds, s \in StatusInputs :
          UpdateRead(u, d, s)
    \/ \E u \in Updaters : UpdateCommit(u)
    \/ \E i \in Pollers : PollSelect(i)
    \/ \E i \in Pollers : PollPublish(i)
    \/ \E i \in Pollers : PollCommit(i)
    \/ \E i \in Pollers, S \in SUBSET RowIds : Cleanup(i, S)
    \/ BrokerFlip

(***************************************************************************)
(* bank-service: data (app/models.py, app/schemas.py)                      *)
(***************************************************************************)
MaxAccounts == 2          \* bank accounts
MaxTransferHandlers == 2  \* concurrent create_transfer handlers
MaxTransfers == 2         \* transfer requests accepted in one behaviour
MaxBankKeys == 1          \* idempotency keys of transfer requests
MaxTx == 3                \* rows of the transactions table
MaxReversers == 1         \* concurrent callers of reverse_transaction
MaxBankTime == 1          \* the bank service's clock runs over 0..MaxBankTime

\* Field(gt=0, le=1000000) of TransferCreate.amount.
MAX_TRANSFER == 1000000

AcctIds == 1..MaxAccounts
TransferHandlers == 1..MaxTransferHandlers
BankKeys == 1..MaxBankKeys
TxIds == 1..MaxTx
Reversers == 1..MaxReversers
BankTimes == 0..MaxBankTime

\* AccountCreate.initial_deposit values accounts are opened with.
Deposits == {0, 2}

\* TransferCreate.amount values requests are made with.
TransferAmounts == {0, 1, MAX_TRANSFER + 1}

ValidTransferAmount(amount) == amount > 0 /\ amount <= MAX_TRANSFER

\* The key create_transfer derives for a request without X-Idempotency-Key:
\* the SHA-256 digest of "from:to:amount:utcnow", modelled as an injective
\* code of the four parts, apart from the keys clients send.
DerivedKey(from_account_number, to_account_number, amount, utcnow) ==
    MaxBankKeys + 1 + utcnow
        + (MaxBankTime + 1) * ((from_account_number - 1)
            + MaxAccounts * ((to_account_number - 1) + MaxAccounts * amount))

DerivedKeys ==
    {DerivedKey(f, t, amount, utcnow) :
        f \in AcctIds, t \in AcctIds,
        amount \in {x \in TransferAmounts : ValidTransferAmount(x)},
        utcnow \in BankTimes}

\* Every key a request is handled under.
TransferKeys == BankKeys \cup DerivedKeys

NoAccount ==
    [id |-> 0, balance |-> 0, version |-> 0, status |-> "-", currency |-> "-"]

\* A row of transactions.  reversal_of is the id named by the description
\* "Reversal of transaction <id>", 0 for a transfer of create_transfer.
\* Three fields are history, not columns: key is the idempotency key of the
\* request that made the row (0 for a reversal), from_before and to_before
\* are the balances execute_transfer found in its two account objects.
NoEntry ==
    [transaction_type |-> "-", from_account_id |-> 0, to_account_id |-> 0,
     amount |-> 0, status |-> "-", key |-> 0, reversal_of |-> 0,
     from_before |-> 0, to_before |-> 0]

NoTransfer == [key |-> 0, from |-> 0, to |-> 0, amount |-> 0]

\* Responses of create_transfer: the TransactionResponse of a transaction
\* (201), or an HTTPException with its status code and its detail.
TransferResp(tx) == [code |-> 201, tx |-> tx, detail |-> "-"]

TransferError(code, detail) == [code |-> code, tx |-> 0, detail |-> detail]

InitBank ==
    /\ accounts = [a \in AcctIds |-> NoAccount]
    /\ alock = [a \in AcctIds |-> 0]
    /\ ledger = [x \in TxIds |-> NoEntry]
    /\ nextTx = 1
    /\ bL1 = [k \in TransferKeys |-> 0]
    /\ bL2 = [k \in TransferKeys |-> 0]
    /\ bevents = {}
    /\ tpc = [h \in TransferHandlers |-> "idle"]
    /\ treq = [h \in TransferHandlers |-> NoTransfer]
    /\ ttx = [h \in TransferHandlers |-> 0]
    /\ treturned = [k \in TransferKeys |-> {}]
    /\ ntransfers = 0
    /\ rpc = [r \in Reversers |-> "idle"]
    /\ rtx = [r \in Reversers |-> 0]
    /\ rfrom = [r \in Reversers |-> NoAccount]
    /\ rto = [r \in Reversers |-> NoAccount]
    /\ bnow = 0

(***************************************************************************)
(* bank-service: create_account (app/api/accounts.py)                      *)
(***************************************************************************)
\* POST /api/v1/bank/accounts: an ACTIVE account in the default currency,
\* holding the initial deposit (ge=0).
NewAccount(a, deposit) ==
    [id |-> a, balance |-> deposit, version |-> 1, status |-> "ACTIVE",
     currency |-> "USD"]

CreateAccount(a, deposit) ==
    /\ accounts[a] = NoAccount
    /\ \A b \in AcctIds : b < a => accounts[b] # NoAccount
    /\ accounts' = [accounts EXCEPT ![a] = NewAccount(a, deposit)]
    /\ UNCHANGED <<alock, ledger, nextTx, bL1, bL2, bevents, tpc, treq, ttx,
                   treturned, ntransfers, rpc, rtx, rfrom, rto>>
    /\ UNCHANGED <<bnow, payVars, outVars, notifVars, totVars>>

(***************************************************************************)
(* bank-service: validation and ledger (utils/validation.py, ledger.py)    *)
(***************************************************************************)
validate_account_status(account) == account.status = "ACTIVE"

validate_sufficient_balance(account, amount) == account.balance >= amount

\* Mutant: the balance of the source is not tested.
validate_transfer_any_balance(from_account, to_account, amount) ==
    /\ validate_account_status(from_account)
    /\ validate_account_status(to_account)
    /\ from_account.id # to_account.id
    /\ from_account.currency = to_account.currency

validate_transfer(from_account, to_account, amount) ==
    /\ validate_account_status(from_account)
    /\ validate_account_status(to_account)
    /\ validate_sufficient_balance(from_account, amount)
    /\ from_account.id # to_account.id
    /\ from_account.currency = to_account.currency

\* The transactions row execute_transfer commits.
TransferEntry(from_account, to_account, amount, key, reversal_of) ==
    [transaction_type |-> "TRANSFER", from_account_id |-> from_account.id,
     to_account_id |-> to_account.id, amount |-> amount,
     status |-> "COMPLETED", key |-> key, reversal_of |-> reversal_of,
     from_before |-> from_account.balance, to_before |-> to_account.balance]

\* Mutant: the destination is not credited.
execute_transfer_debit_only(table, from_account, to_account, amount) ==
    [table EXCEPT
        ![from_account.id] = [@ EXCEPT !.balance = from_account.balance - amount,
                                       !.version = from_account.version + 1]]

\* The bank_accounts table after execute_transfer's commit: the balance and
\* version the session computed from its copies of the two rows are written.
execute_transfer(table, from_account, to_account, amount) ==
    [table EXCEPT
        ![from_account.id] = [@ EXCEPT !.balance = from_account.balance - amount,
                                       !.version = from_account.version + 1],
        ![to_account.id]   = [@ EXCEPT !.balance = to_account.balance + amount,
                                       !.version = to_account.version + 1]]

(***************************************************************************)
(* bank-service: create_transfer (app/api/transactions.py)                 *)
(***************************************************************************)
\* The row locks of handler h's session are released (commit, rollback or
\* the closing of the session).
ReleaseAccountLocks(h) ==
    [a \in AcctIds |-> IF alock[a] = h THEN 0 ELSE alock[a]]

\* The handler answers its caller with r and the worker becomes free.
TransferRespond(h, r) ==
    /\ treturned' = [treturned EXCEPT ![treq[h].key] = @ \cup {r}]
    /\ tpc' = [tpc EXCEPT ![h] = "idle"]
    /\ treq' = [treq EXCEPT ![h] = NoTransfer]
    /\ ttx' = [ttx EXCEPT ![h] = 0]

\* POST /api/v1/bank/transfers with header X-Idempotency-Key: k, or without
\* the header (k = 0), when the key is derived from the body and the clock.
\* An amount outside (0, 1000000] is refused with 422 before the handler
\* runs.
TransferStart(h, k, f, t, amount) ==
    /\ tpc[h] = "idle"
    /\ \A g \in TransferHandlers : g < h => tpc[g] # "idle"
    /\ ntransfers < MaxTransfers
    /\ IF ValidTransferAmount(amount)
       THEN /\ ntransfers' = ntransfers + 1
            /\ tpc' = [tpc EXCEPT ![h] = "check_l1"]
            /\ treq' = [treq EXCEPT ![h] =
                           [key |-> IF k = 0
                                    THEN DerivedKey(f, t, amount, bnow)
                                    ELSE k,
                            from |-> f, to |-> t, amount |-> amount]]
       ELSE UNCHANGED <<ntransfers, tpc, treq>>
    /\ UNCHANGED <<accounts, alock, ledger, nextTx, bL1, bL2, bevents, ttx,
                   treturned, rpc, rtx, rfrom, rto>>
    /\ UNCHANGED <<bnow, payVars, outVars, notifVars, totVars>>

\* L1: a Redis hit replays the stored TransactionResponse.
TransferCheckL1(h) ==
    /\ tpc[h] = "check_l1"
    /\ IF bL1[treq[h].key] # 0
       THEN TransferRespond(h, TransferResp(bL1[treq[h].key]))
       ELSE /\ tpc' = [tpc EXCEPT ![h] = "check_l2"]
            /\ UNCHANGED <<treq, ttx, treturned>>
    /\ UNCHANGED <<accounts, alock, ledger, nextTx, bL1, bL2, bevents,
                   ntransfers, rpc, rtx, rfrom, rto>>
    /\ UNCHANGED <<bnow, payVars, outVars, notifVars, totVars>>

\* L2: a transfer_idempotency hit warms Redis and replays the response.
TransferCheckL2(h) ==
    /\ tpc[h] = "check_l2"
    /\ IF bL2[treq[h].key] # 0
       THEN /\ bL1' = [bL1 EXCEPT ![treq[h].key] = bL2[treq[h].key]]
            /\ TransferRespond(h, TransferResp(bL2[treq[h].key]))
       ELSE /\ tpc' = [tpc EXCEPT ![h] = "lock_from"]
            /\ UNCHANGED <<bL1, treq, ttx, treturned>>
    /\ UNCHANGED <<accounts, alock, ledger, nextTx, bL2, bevents, ntransfers,
                   rpc, rtx, rfrom, rto>>
    /\ UNCHANGED <<bnow, payVars, outVars, notifVars, totVars>>

\* SELECT ... FOR UPDATE of the source account: it waits while another
\* session holds the row lock; a missing row is found (and 404 answered)
\* only after the second query.
LockFrom(h) ==
    /\ tpc[h] = "lock_from"
    /\ LET f == treq[h].from
       IN  IF accounts[f] = NoAccount
           THEN UNCHANGED alock
           ELSE /\ alock[f] \in {0, h}
                /\ alock' = [alock EXCEPT ![f] = h]
    /\ tpc' = [tpc EXCEPT ![h] = "lock_to"]
    /\ UNCHANGED <<accounts, ledger, nextTx, bL1, bL2, bevents, treq, ttx,
                   treturned, ntransfers, rpc, rtx, rfrom, rto>>
    /\ UNCHANGED <<bnow, payVars, outVars, notifVars, totVars>>

\* SELECT ... FOR UPDATE of the destination account.
LockTo(h) ==
    /\ tpc[h] = "lock_to"
    /\ LET t == treq[h].to
       IN  IF accounts[t] = NoAccount
           THEN UNCHANGED alock
           ELSE /\ alock[t] \in {0, h}
                /\ alock' = [alock EXCEPT ![t] = h]
    /\ tpc' = [tpc EXCEPT ![h] = "execute"]
    /\ UNCHANGED <<accounts, ledger, nextTx, bL1, bL2, bevents, treq, ttx,
                   treturned, ntransfers, rpc, rtx, rfrom, rto>>
    /\ UNCHANGED <<bnow, payVars, outVars, notifVars, totVars>>

\* Handler h waits for the lock of its destination, whose holder waits for a
\* lock h holds.
Deadlocked(h) ==
    /\ tpc[h] = "lock_to"
    /\ accounts[treq[h].to] # NoAccount
    /\ \E g \in TransferHandlers \ {h} :
          /\ alock[treq[h].to] = g
          /\ tpc[g] = "lock_to"
          /\ alock[treq[g].to] = h

\* PostgreSQL detects the deadlock and aborts the statement of one of the
\* sessions: the error reaches the except clause, which rolls back (500).
TransferDeadlock(h) ==
    /\ Deadlocked(h)
    /\ alock' = ReleaseAccountLocks(h)
    /\ TransferRespond(h, TransferError(500, "deadlock detected"))
    /\ UNCHANGED <<accounts, ledger, nextTx, bL1, bL2, bevents, ntransfers,
                   rpc, rtx, rfrom, rto>>
    /\ UNCHANGED <<bnow, payVars, outVars, notifVars, totVars>>

\* With both rows locked: 404 for a missing account, 400 for a transfer
\* validate_transfer refuses (the session is closed, which releases the
\* locks); otherwise execute_transfer, which commits the transactions row
\* and both balances together, or fails and rolls back (500).
ExecuteTransfer(h) ==
    /\ tpc[h] = "execute"
    /\ LET from_account == accounts[treq[h].from]
           to_account   == accounts[treq[h].to]
           amount       == treq[h].amount
       IN  IF from_account = NoAccount \/ to_account = NoAccount
           THEN /\ TransferRespond(h, TransferError(404, "not found"))
                /\ UNCHANGED <<accounts, ledger, nextTx>>
           ELSE IF ~validate_transfer(from_account, to_account, amount)
           THEN /\ TransferRespond(h, TransferError(400, "invalid"))
                /\ UNCHANGED <<accounts, ledger, nextTx>>
           ELSE \/ /\ nextTx <= MaxTx
                   /\ accounts' = execute_transfer(accounts, from_account,
                                                   to_account, amount)
                   /\ ledger' = [ledger EXCEPT ![nextTx] =
                                    TransferEntry(from_account, to_account,
                                                  amount, treq[h].key, 0)]
                   /\ nextTx' = nextTx + 1
                   /\ ttx' = [ttx EXCEPT ![h] = nextTx]
                   /\ tpc' = [tpc EXCEPT ![h] = "save_l1"]
                   /\ UNCHANGED <<treq, treturned>>
                \/ /\ TransferRespond(h, TransferError(500, "Transfer failed"))
                   /\ UNCHANGED <<accounts, ledger, nextTx>>
    /\ alock' = ReleaseAccountLocks(h)
    /\ UNCHANGED <<bL1, bL2, bevents, ntransfers, rpc, rtx, rfrom, rto>>
    /\ UNCHANGED <<bnow, payVars, outVars, notifVars, totVars>>

\* The response is stored in Redis; a Redis error reaches the except
\* clause (500).
TransferSaveL1(h) ==
    /\ tpc[h] = "save_l1"
    /\ \/ /\ bL1' = [bL1 EXCEPT ![treq[h].key] = ttx[h]]
          /\ tpc' = [tpc EXCEPT ![h] = "save_l2"]
          /\ UNCHANGED <<treq, ttx, treturned>>
       \/ /\ TransferRespond(h, TransferError(500, "redis error"))
          /\ UNCHANGED bL1
    /\ UNCHANGED <<accounts, alock, ledger, nextTx, bL2, bevents, ntransfers,
                   rpc, rtx, rfrom, rto>>
    /\ UNCHANGED <<bnow, payVars, outVars, notifVars, totVars>>

\* The TransferIdempotency row is inserted and committed; a primary-key
\* conflict reaches the except clause (500).  Then publish_transfer_event,
\* which swallows broker errors, and the response.
TransferSaveL2(h) ==
    /\ tpc[h] = "save_l2"
    /\ IF bL2[treq[h].key] = 0
       THEN /\ bL2' = [bL2 EXCEPT ![treq[h].key] = ttx[h]]
            /\ \E ok \in BOOLEAN :
                  bevents' = IF ok THEN bevents \cup {ttx[h]} ELSE bevents
            /\ TransferRespond(h, TransferResp(ttx[h]))
       ELSE /\ TransferRespond(h, TransferError(500, "duplicate key"))
            /\ UNCHANGED <<bL2, bevents>>
    /\ UNCHANGED <<accounts, alock, ledger, nextTx, bL1, ntransfers, rpc, rtx,
                   rfrom, rto>>
    /\ UNCHANGED <<bnow, payVars, outVars, notifVars, totVars>>

(***************************************************************************)
(* bank-service: reverse_transaction (utils/ledger.py)                     *)
(***************************************************************************)
\* The tests reverse_transaction makes on the original.
Reversible(entry) ==
    /\ entry # NoEntry
    /\ entry.status = "COMPLETED"
    /\ entry.transaction_type = "TRANSFER"

\* reverse_transaction(x): the original is loaded and tested; ValueError
\* when it cannot be reversed.
ReverseStart(r, x) ==
    /\ rpc[r] = "idle"
    /\ IF Reversible(ledger[x])
       THEN /\ rtx' = [rtx EXCEPT ![r] = x]
            /\ rpc' = [rpc EXCEPT ![r] = "read_from"]
       ELSE UNCHANGED <<rtx, rpc>>
    /\ UNCHANGED <<accounts, alock, ledger, nextTx, bL1, bL2, bevents, tpc,
                   treq, ttx, treturned, ntransfers, rfrom, rto>>
    /\ UNCHANGED <<bnow, payVars, outVars, notifVars, totVars>>

\* The original's source account is loaded (no row lock).
ReverseReadFrom(r) ==
    /\ rpc[r] = "read_from"
    /\ rfrom' = [rfrom EXCEPT ![r] = accounts[ledger[rtx[r]].from_account_id]]
    /\ rpc' = [rpc EXCEPT ![r] = "read_to"]
    /\ UNCHANGED <<accounts, alock, ledger, nextTx, bL1, bL2, bevents, tpc,
                   treq, ttx, treturned, ntransfers, rtx, rto>>
    /\ UNCHANGED <<bnow, payVars, outVars, notifVars, totVars>>

\* The original's destination account is loaded (no row lock).
ReverseReadTo(r) ==
    /\ rpc[r] = "read_to"
    /\ rto' = [rto EXCEPT ![r] = accounts[ledger[rtx[r]].to_account_id]]
    /\ rpc' = [rpc EXCEPT ![r] = "execute"]
    /\ UNCHANGED <<accounts, alock, ledger, nextTx, bL1, bL2, bevents, tpc,
                   treq, ttx, treturned, ntransfers, rtx, rfrom>>
    /\ UNCHANGED <<bnow, payVars, outVars, notifVars, totVars>>

\* The reverser's session forgets what it loaded.
ReverseEnd(r) ==
    /\ rpc' = [rpc EXCEPT ![r] = "idle"]
    /\ rtx' = [rtx EXCEPT ![r] = 0]
    /\ rfrom' = [rfrom EXCEPT ![r] = NoAccount]
    /\ rto' = [rto EXCEPT ![r] = NoAccount]

\* Mutant: the reversal moves the amount in the original's direction.
ReversalAccounts_unswapped(r) == <<rfrom[r], rto[r]>>

\* The from_account and to_account reverse_transaction hands execute_transfer:
\* the original's destination and the original's source.
ReversalAccounts(r) == <<rto[r], rfrom[r]>>

\* execute_transfer with the accounts swapped: its UPDATEs wait for the row
\* locks of transfer handlers, and write what the session computed from the
\* rows it loaded.  A failure rolls back and is raised to the caller.
ReverseExecute(r) ==
    /\ rpc[r] = "execute"
    /\ \/ /\ nextTx <= MaxTx
          /\ alock[rfrom[r].id] = 0 /\ alock[rto[r].id] = 0
          /\ accounts' = execute_transfer(accounts, ReversalAccounts(r)[1],
                                          ReversalAccounts(r)[2],
                                          ledger[rtx[r]].amount)
          /\ ledger' = [ledger EXCEPT ![nextTx] =
                           TransferEntry(ReversalAccounts(r)[1],
                                         ReversalAccounts(r)[2],
                                         ledger[rtx[r]].amount, 0, rtx[r])]
          /\ nextTx' = nextTx + 1
          /\ rpc' = [rpc EXCEPT ![r] = "mark"]
          /\ UNCHANGED <<rtx, rfrom, rto>>
       \/ /\ ReverseEnd(r)
          /\ UNCHANGED <<accounts, ledger, nextTx>>
    /\ UNCHANGED <<alock, bL1, bL2, bevents, tpc, treq, ttx, treturned,
                   ntransfers>>
    /\ UNCHANGED <<bnow, payVars, outVars, notifVars, totVars>>

\* original.status = "REVERSED" and the second commit, or a failure of it.
ReverseMark(r) ==
    /\ rpc[r] = "mark"
    /\ \/ ledger' = [ledger EXCEPT ![rtx[r]].status = "REVERSED"]
       \/ UNCHANGED ledger
    /\ ReverseEnd(r)
    /\ UNCHANGED <<accounts, alock, nextTx, bL1, bL2, bevents, tpc, treq, ttx,
                   treturned, ntransfers>>
    /\ UNCHANGED <<bnow, payVars, outVars, notifVars, totVars>>

\* The bank service's clock advances.
BankTick ==
    /\ bnow < MaxBankTime
    /\ bnow' = bnow + 1
    /\ UNCHANGED <<accounts, alock, ledger, nextTx, bL1, bL2, bevents, tpc,
                   treq, ttx, treturned, ntransfers, rpc, rtx, rfrom, rto>>
    /\ UNCHANGED <<payVars, outVars, notifVars, totVars>>

NextBank ==
    \/ \E a \in AcctIds, deposit \in Deposits : CreateAccount(a, deposit)
    \/ \E h \in TransferHandlers, k \in BankKeys \cup {0}, f \in AcctIds,
          t \in AcctIds,
          amount \in TransferAmounts : TransferStart(h, k, f, t, amount)
    \/ \E h \in TransferHandlers : TransferCheckL1(h)
    \/ \E h \in TransferHandlers : TransferCheckL2(h)
    \/ \E h \in TransferHandlers : LockFrom(h)
    \/ \E h \in TransferHandlers : LockTo(h)
    \/ \E h \in TransferHandlers : TransferDeadlock(h)
    \/ \E h \in TransferHandlers : ExecuteTransfer(h)
    \/ \E h \in TransferHandlers : TransferSaveL1(h)
    \/ \E h \in TransferHandlers : TransferSaveL2(h)
    \/ \E r \in Reversers, x \in TxIds : ReverseStart(r, x)
    \/ \E r \in Reversers : ReverseReadFrom(r)
    \/ \E r \in Reversers : ReverseReadTo(r)
    \/ \E r \in Reversers : ReverseExecute(r)
    \/ \E r \in Reversers : ReverseMark(r)
    \/ BankTick

(***************************************************************************)
(* notification-service: consume_donation_events (utils/consumer.py)       *)
(***************************************************************************)
MaxDeliveries == 3       \* messages the exchange routes to the queue
MaxNotifications == 3    \* rows of the notifications table
MaxPoison == 2           \* deliveries of an undecodable message followed

\* The events notifications.queue is bound to.
NotifKinds == {<<"DonationCreated">>, <<"DonationStatusChanged", "COMPLETED">>}

NotifMessages == [donation : DonationIds, kind : NotifKinds]

NoMessage == [donation |-> 0, kind |-> <<>>]

\* A message whose body json.loads cannot decode.
Undecodable == [donation |-> 0, kind |-> <<"undecodable">>]

QueueMessages == NotifMessages \cup {Undecodable}

\* A row of notifications as the callback inserts it.
NewNotification(m) ==
    [donation_id |-> m.donation, status |-> "PENDING", retry_count |-> 0]

InitNotif ==
    /\ nqueue = [m \in QueueMessages |-> 0]
    /\ npoison = 0
    /\ npublished = 0
    /\ npc = "idle"
    /\ nmsg = NoMessage
    /\ nsuccess = FALSE
    /\ notifications = << >>
    /\ emails = [m \in NotifMessages |-> 0]

\* The donations.events exchange routes an event to the queue: a first
\* publication of the outbox processor, or a repeated one.
RouteEvent(m) ==
    /\ npublished < MaxDeliveries
    /\ npublished' = npublished + 1
    /\ nqueue' = [nqueue EXCEPT ![m] = @ + 1]
    /\ UNCHANGED <<npc, nmsg, nsuccess, notifications, emails, npoison>>
    /\ UNCHANGED <<payVars, outVars, bankVars, totVars>>

\* callback, up to the first commit: a PENDING row with a fresh id is
\* inserted.  A failure is answered with basic_nack(requeue=True), which
\* leaves the message in the queue.
NotifyInsert(m) ==
    /\ npc = "idle"
    /\ nqueue[m] > 0
    /\ \/ /\ Len(notifications) < MaxNotifications
          /\ notifications' = Append(notifications, NewNotification(m))
          /\ nqueue' = [nqueue EXCEPT ![m] = @ - 1]
          /\ nmsg' = m
          /\ npc' = "send"
       \/ UNCHANGED <<notifications, nqueue, nmsg, npc>>
    /\ UNCHANGED <<npublished, nsuccess, emails, npoison>>
    /\ UNCHANGED <<payVars, outVars, bankVars, totVars>>

\* callback on a body that is not JSON: json.loads raises inside the try,
\* and the except clause answers basic_nack(requeue=True), which leaves the
\* message in the queue.
NotifyReject ==
    /\ npc = "idle"
    /\ nqueue[Undecodable] > 0
    /\ npoison < MaxPoison
    /\ npoison' = npoison + 1
    /\ UNCHANGED <<nqueue, npublished, npc, nmsg, nsuccess, notifications,
                   emails>>
    /\ UNCHANGED <<payVars, outVars, bankVars, totVars>>

\* send_email (utils/email.py): True when the email went out.
NotifySend ==
    /\ npc = "send"
    /\ \E success \in BOOLEAN :
          /\ nsuccess' = success
          /\ emails' = IF success THEN [emails EXCEPT ![nmsg] = @ + 1]
                       ELSE emails
    /\ npc' = "update"
    /\ UNCHANGED <<nqueue, npublished, nmsg, notifications, npoison>>
    /\ UNCHANGED <<payVars, outVars, bankVars, totVars>>

\* The row's status after send_email.
SentStatus(row, success) ==
    IF success THEN [row EXCEPT !.status = "SENT"]
    ELSE [row EXCEPT !.status = "FAILED", !.retry_count = @ + 1]

\* callback, the second commit and basic_ack; a failure of the commit is
\* answered with basic_nack(requeue=True): the message returns to the queue.
NotifyUpdate ==
    /\ npc = "update"
    /\ \/ /\ notifications' =
                [notifications EXCEPT ![Len(notifications)] =
                    SentStatus(@, nsuccess)]
          /\ UNCHANGED nqueue
       \/ /\ nqueue' = [nqueue EXCEPT ![nmsg] = @ + 1]
          /\ UNCHANGED notifications
    /\ npc' = "idle"
    /\ nmsg' = NoMessage
    /\ nsuccess' = FALSE
    /\ UNCHANGED <<npublished, emails, npoison>>
    /\ UNCHANGED <<payVars, outVars, bankVars, totVars>>

NextNotif ==
    \/ \E m \in QueueMessages : RouteEvent(m)
    \/ \E m \in NotifMessages : NotifyInsert(m)
    \/ NotifyReject
    \/ NotifySend
    \/ NotifyUpdate

(***************************************************************************)
(* totals-service: get_campaign_totals, consume_events, caching            *)
(***************************************************************************)
MaxCampaignDonations == 2   \* donations made to the campaign
MaxGetters == 2             \* concurrent GET /api/v1/totals/campaigns/{id}

cache_ttl == 30             \* settings.cache_ttl, seconds

CampaignDonations == 1..MaxCampaignDonations
Getters == 1..MaxGetters

\* The amount of donation d; the amounts are chosen so that a sum tells
\* which donations it counts.
DonationAmount(d) == 2 ^ (d - 1)

RECURSIVE SumAmounts(_)
SumAmounts(S) ==
    IF S = {} THEN 0
    ELSE LET d == CHOOSE x \in S : TRUE
         IN  DonationAmount(d) + SumAmounts(S \ {d})

NoTotals == [total_donations |-> 0, total_amount |-> 0, data_source |-> "-"]

\* The aggregate over the campaign's COMPLETED donations.
Aggregate(table, source) ==
    LET completed == {d \in CampaignDonations : table[d] = "COMPLETED"}
    IN  [total_donations |-> Cardinality(completed),
         total_amount |-> SumAmounts(completed),
         data_source |-> source]

\* get_totals_realtime: the query over the base table.
get_totals_realtime(table) == Aggregate(table, "realtime")

\* The campaign's row of the view after REFRESH MATERIALIZED VIEW: GROUP BY
\* campaign_id yields no row for a campaign without COMPLETED donations.
refresh_materialized_view(table) ==
    IF \E d \in CampaignDonations : table[d] = "COMPLETED"
    THEN Aggregate(table, "materialized_view")
    ELSE NoTotals

\* Mutant: the entry is stored without expiry.
set_totals_cache_no_ttl(data) ==
    /\ tcache' = data
    /\ tttl' = 0

\* set_totals_cache: SETEX campaign_totals:<id> cache_ttl <json of data>.
set_totals_cache(data) ==
    /\ tcache' = data
    /\ tttl' = cache_ttl

InitTotals ==
    /\ tdon = [d \in CampaignDonations |-> "PENDING"]
    /\ tcache = NoTotals
    /\ tttl = 0
    /\ tview = NoTotals
    /\ tqueue = {}
    /\ thandled = {}
    /\ tnext = {}
    /\ gpc = [g \in Getters |-> "idle"]
    /\ grt = [g \in Getters |-> FALSE]
    /\ gdata = [g \in Getters |-> NoTotals]
    /\ gseen = [g \in Getters |-> {}]
    /\ ganswer = [g \in Getters |-> NoTotals]

\* The donation service sets the donation COMPLETED in the shared database.
CompleteDonation(d) ==
    /\ tdon[d] = "PENDING"
    /\ tdon' = [tdon EXCEPT ![d] = "COMPLETED"]
    /\ UNCHANGED <<tcache, tttl, tview, tqueue, thandled, tnext, gpc, grt, gdata,
                   gseen, ganswer>>
    /\ UNCHANGED <<payVars, outVars, bankVars, notifVars>>

\* The PaymentStatus.CAPTURED event of donation d reaches totals.queue.
PublishCaptured(d) ==
    /\ d \notin tqueue /\ d \notin thandled
    /\ tqueue' = tqueue \cup {d}
    /\ UNCHANGED <<tdon, tcache, tttl, tview, thandled, tnext, gpc, grt, gdata,
                   gseen, ganswer>>
    /\ UNCHANGED <<payVars, outVars, bankVars, notifVars>>

\* consume_events.callback: the donation is looked up, the campaign's Redis
\* key is deleted and the message acknowledged; an error is answered with
\* basic_nack(requeue=True), which leaves the message in the queue.
ConsumeCaptured(d) ==
    /\ d \in tqueue
    /\ \/ /\ tcache' = NoTotals
          /\ tttl' = 0
          /\ tqueue' = tqueue \ {d}
          /\ thandled' = thandled \cup {d}
          /\ tnext' = tnext \cup {d}
       \/ UNCHANGED <<tcache, tttl, tqueue, thandled, tnext>>
    /\ UNCHANGED <<tdon, tview, gpc, grt, gdata, gseen, ganswer>>
    /\ UNCHANGED <<payVars, outVars, bankVars, notifVars>>

\* POST /api/v1/totals/refresh: the view is recomputed from the base table.
RefreshView ==
    /\ tview' = refresh_materialized_view(tdon)
    /\ UNCHANGED <<tdon, tcache, tttl, tqueue, thandled, tnext, gpc, grt, gdata,
                   gseen, ganswer>>
    /\ UNCHANGED <<payVars, outVars, bankVars, notifVars>>

\* The Redis entry reaches its TTL (settings.cache_ttl).
ExpireCache ==
    /\ tcache # NoTotals
    /\ tcache' = NoTotals
    /\ tttl' = 0
    /\ UNCHANGED <<tdon, tview, tqueue, thandled, tnext, gpc, grt, gdata,
                   gseen, ganswer>>
    /\ UNCHANGED <<payVars, outVars, bankVars, notifVars>>

\* Handler g returns `data`.
Answer(g, data) ==
    /\ ganswer' = [ganswer EXCEPT ![g] = data]
    /\ gpc' = [gpc EXCEPT ![g] = "idle"]
    /\ gdata' = [gdata EXCEPT ![g] = NoTotals]

\* GET /api/v1/totals/campaigns/{id}?realtime=...: a real-time request goes
\* to the recount, a normal one to Redis.
GetStart(g, realtime) ==
    /\ gpc[g] = "idle"
    /\ \A f \in Getters : f < g => gpc[f] # "idle"
    /\ grt' = [grt EXCEPT ![g] = realtime]
    /\ gpc' = [gpc EXCEPT ![g] = IF realtime THEN "recount" ELSE "cache"]
    /\ gseen' = [gseen EXCEPT ![g] =
                    IF realtime THEN {}
                    ELSE {d \in tnext : tdon[d] = "COMPLETED"}]
    /\ tnext' = IF realtime THEN tnext
                ELSE {d \in tnext : tdon[d] # "COMPLETED"}
    /\ UNCHANGED <<tdon, tcache, tttl, tview, tqueue, thandled, gdata, ganswer>>
    /\ UNCHANGED <<payVars, outVars, bankVars, notifVars>>

\* L1: get_totals_from_cache; a hit is returned.
GetCache(g) ==
    /\ gpc[g] = "cache"
    /\ IF tcache # NoTotals
       THEN Answer(g, tcache)
       ELSE /\ gpc' = [gpc EXCEPT ![g] = "view"]
            /\ UNCHANGED <<gdata, ganswer>>
    /\ UNCHANGED <<tdon, tcache, tttl, tview, tqueue, thandled, tnext, grt, gseen>>
    /\ UNCHANGED <<payVars, outVars, bankVars, notifVars>>

\* L2: get_totals_from_materialized_view; with no row for the campaign the
\* handler falls back to the recount.
GetView(g) ==
    /\ gpc[g] = "view"
    /\ IF tview # NoTotals
       THEN /\ gdata' = [gdata EXCEPT ![g] = tview]
            /\ gpc' = [gpc EXCEPT ![g] = "fill"]
       ELSE /\ gpc' = [gpc EXCEPT ![g] = "recount"]
            /\ UNCHANGED gdata
    /\ UNCHANGED <<tdon, tcache, tttl, tview, tqueue, thandled, tnext, grt, gseen,
                   ganswer>>
    /\ UNCHANGED <<payVars, outVars, bankVars, notifVars>>

\* L3: get_totals_realtime; a real-time request returns it without touching
\* Redis.
GetRecount(g) ==
    /\ gpc[g] = "recount"
    /\ IF grt[g]
       THEN Answer(g, get_totals_realtime(tdon))
       ELSE /\ gdata' = [gdata EXCEPT ![g] = get_totals_realtime(tdon)]
            /\ gpc' = [gpc EXCEPT ![g] = "fill"]
            /\ UNCHANGED ganswer
    /\ UNCHANGED <<tdon, tcache, tttl, tview, tqueue, thandled, tnext, grt, gseen>>
    /\ UNCHANGED <<payVars, outVars, bankVars, notifVars>>

\* set_totals_cache with what the handler holds, and the response.
GetFill(g) ==
    /\ gpc[g] = "fill"
    /\ set_totals_cache(gdata[g])
    /\ Answer(g, gdata[g])
    /\ UNCHANGED <<tdon, tview, tqueue, thandled, tnext, grt, gseen>>
    /\ UNCHANGED <<payVars, outVars, bankVars, notifVars>>

NextTotals ==
    \/ \E d \in CampaignDonations : CompleteDonation(d)
    \/ \E d \in CampaignDonations : PublishCaptured(d)
    \/ \E d \in CampaignDonations : ConsumeCaptured(d)
    \/ RefreshView
    \/ ExpireCache
    \/ \E g \in Getters, realtime \in BOOLEAN : GetStart(g, realtime)
    \/ \E g \in Getters : GetCache(g)
    \/ \E g \in Getters : GetView(g)
    \/ \E g \in Getters : GetRecount(g)
    \/ \E g \in Getters : GetFill(g)

(***************************************************************************)
(* Specifications                                                          *)
(***************************************************************************)
Init == InitPay /\ InitOut /\ InitBank /\ InitNotif /\ InitTotals

\* The payment service.
SpecPay == Init /\ [][NextPay]_vars

\* A request that has been accepted is handled to its end.
HandlerStep(h) ==
    \/ CheckL1(h)
    \/ CheckL2(h)
    \/ ProcessWebhook(h)
    \/ RefreshPayment(h)
    \/ PublishStatus(h)
    \/ SaveL1(h)
    \/ SaveL2(h)

FairPay ==
    SpecPay /\ \A h \in Handlers : WF_vars(HandlerStep(h))

\* The gateway's deliveries for one intent.
SpecGateway == Init /\ [][NextGateway]_vars

\* Every accepted request is handled to its end, the intent is created, and
\* the gateway keeps delivering each of its events under its key.
FairGateway ==
    /\ SpecGateway
    /\ \A h \in Handlers : WF_vars(HandlerStep(h))
    /\ WF_vars(\E p \in IntentIds : CreatePaymentIntent(p))
    /\ \A k \in Keys : SF_vars(\E h \in Handlers : GatewayDeliver(h, k))

\* The donation service and its outbox processors.
SpecOutbox == Init /\ [][NextOut]_vars

\* run() is a loop that never ends: every poller keeps taking its steps.
FairOutbox ==
    SpecOutbox /\ \A i \in Pollers : WF_vars(PollerStep(i))

\* The bank service.
SpecBank == Init /\ [][NextBank]_vars

\* The donation service's API alone, with every status DonationStatusUpdate
\* accepts.
NextDonations ==
    \/ \E d \in DonationIds, a \in Amounts : CreateDonation(d, a)
    \/ \E u \in Updaters, d \in DonationIds, s \in DonationStatuses :
          UpdateRead(u, d, s)
    \/ \E u \in Updaters : UpdateCommit(u)

SpecDonations == Init /\ [][NextDonations]_vars

SpecNotif == Init /\ [][NextNotif]_vars

SpecTotals == Init /\ [][NextTotals]_vars

(***************************************************************************)
(* Properties of the payment service                                       *)
(***************************************************************************)
HistoryRowsOf(k) == {i \in 1..Len(history) : history[i].event_id = k}

Answers(k) == {r \in returned[k] : r.code < 500}

\* C1: for every idempotency key k, at most one payment_state_history row
\* has event_id = k, however the requests carrying k interleave.
C1_Original ==
    \A k \in Keys : Cardinality(HistoryRowsOf(k)) <= 1

\* C2: once the requests with key k have finished, every non-5xx response
\* that was returned to one of them is the response stored in L2 under k
\* (which is what a later request with key k is to be answered with).
C2_Original ==
    \A k \in Keys :
        (\A h \in Handlers : hkey[h] # k)
            => \A r \in Answers(k) : L2[k] = r

\* C3: any two requests with the same idempotency key receive the same
\* body and status code.
C3_Original ==
    \A k \in Keys : Cardinality(Answers(k)) <= 1

TransitionGraph ==
    {<<"INITIATED", "AUTHORIZED">>, <<"INITIATED", "FAILED">>,
     <<"AUTHORIZED", "CAPTURED">>, <<"AUTHORIZED", "FAILED">>,
     <<"AUTHORIZED", "REFUNDED">>, <<"CAPTURED", "REFUNDED">>}

\* C4: every change of an intent's status, by a webhook or by a refund, is
\* an edge of the transition graph; FAILED and REFUNDED have no outgoing
\* edge, so a terminal status never changes.
C4_Theorem ==
    [][\A p \in IntentIds :
          (payments[p] # NoPay /\ payments'[p].status # payments[p].status)
              => <<payments[p].status, payments'[p].status>> \in TransitionGraph]_vars

C4_Witness ==
    \E p \in IntentIds :
        /\ payments[p].status = "REFUNDED"
        /\ payments[p].version = 4

\* C5: the version is 1 at creation, grows by exactly 1 in a step that
\* changes the status and is unchanged in every other step.
C5_Theorem ==
    [][\A p \in IntentIds :
          /\ (payments[p] = NoPay /\ payments'[p] # NoPay)
                => payments'[p].version = 1
          /\ payments[p] # NoPay
                => payments'[p].version =
                      payments[p].version
                        + (IF payments'[p].status # payments[p].status THEN 1 ELSE 0)]_vars

C5_Witness ==
    /\ \E p \in IntentIds : payments[p].version = 2
    /\ \E k \in Keys : \E r \in returned[k] : r.kind \in {"ignored", "rejected"}

\* C6: updated_at of an intent never decreases.
C6_Original ==
    [][\A p \in IntentIds :
          payments[p] # NoPay
              => payments'[p].updated_at >= payments[p].updated_at]_vars

Refusals == {"ignored", "rejected", "not_found"}

\* C7: a step of a handler whose answer is ignored, rejected or 404 changes
\* no payment row, appends no history row and publishes nothing.
C7_Theorem ==
    [][\A h \in Handlers :
          (/\ <<pc[h], hresp[h]>> # <<pc'[h], hresp'[h]>>
           /\ hresp[h].kind \in Refusals \/ hresp'[h].kind \in Refusals)
              => UNCHANGED <<payments, history, published>>]_vars

C7_Witness ==
    /\ \E k \in Keys : IgnoredResp \in returned[k]
    /\ \E k \in Keys : \E r \in returned[k] : r.kind = "rejected"

(***************************************************************************)
(* Properties of the donation service and its outbox                       *)
(***************************************************************************)
CreatedRows(d) ==
    {r \in RowIds : /\ outbox[r] # NoRow
                    /\ outbox[r].aggregate_id = d
                    /\ outbox[r].event_type = <<"DonationCreated">>}

CreatedDelivered(d) ==
    \E m \in delivered :
        m.aggregate_id = d /\ m.event_type = <<"DonationCreated">>

\* C8 (as claimed): in every reachable state a Donation row exists if and
\* only if a DonationCreated outbox row with its id as aggregate_id exists.
C8_Original ==
    \A d \in DonationIds : donations[d] # NoDonation <=> CreatedRows(d) # {}

C8_Rows ==
    /\ \A d \in DonationIds :
          /\ donations[d] # NoDonation
                <=> (CreatedRows(d) # {} \/ CreatedDelivered(d))
          /\ Cardinality(CreatedRows(d)) <= 1
          /\ donations[d] # NoDonation => ValidAmount(donations[d].amount)
    /\ \A r \in RowIds :
          outbox[r] # NoRow => donations[outbox[r].aggregate_id] # NoDonation

C8_Step ==
    /\ \A d \in DonationIds :
          donations'[d] # donations[d]
              => /\ nextRow' = nextRow + 1
                 /\ outbox'[nextRow] =
                       OutboxRow(d, IF donations[d] = NoDonation
                                    THEN <<"DonationCreated">>
                                    ELSE <<"DonationStatusChanged",
                                           donations'[d].status>>)
    /\ nextRow' # nextRow
          => /\ nextRow' = nextRow + 1
             /\ \E d \in DonationIds :
                   /\ donations'[d] # NoDonation
                   /\ outbox'[nextRow] =
                         OutboxRow(d, IF donations[d] = NoDonation
                                      THEN <<"DonationCreated">>
                                      ELSE <<"DonationStatusChanged",
                                             donations'[d].status>>)

\* C8 (amended): a Donation row exists if and only if its DonationCreated
\* outbox row exists or has been published and then deleted by the
\* retention cleanup; no donation has two such rows or an amount outside
\* (0, MAX_PLEDGE]; every outbox row belongs to a donation; and a step
\* inserts an outbox row exactly when it commits a donation's creation or
\* status update, the row being that change's event.
C8_Theorem == [](C8_Rows) /\ [][C8_Step]_vars

C8_Witness ==
    \E d \in DonationIds :
        /\ donations[d].version = 2
        /\ CreatedRows(d) = {}
        /\ \E r \in RowIds :
              /\ outbox[r] # NoRow
              /\ outbox[r].event_type = <<"DonationStatusChanged", donations[d].status>>

RowDone(r) ==
    /\ outbox[r] # NoRow
    /\ outbox[r].processed_at # "null" \/ outbox[r].retry_count = MAX_RETRIES

\* C9: with the pollers scheduled fairly, every outbox row that is ever
\* inserted eventually has processed_at set or retry_count = MAX_RETRIES,
\* whatever the broker does.
C9_Theorem ==
    \A r \in RowIds : [](nextRow <= r) \/ <>RowDone(r)

C9_Witness ==
    \E r, q \in RowIds :
        /\ outbox[r] # NoRow /\ outbox[q] # NoRow
        /\ outbox[r].processed_at = "null"
        /\ outbox[r].retry_count = MAX_RETRIES
        /\ outbox[q].processed_at # "null"

RowDelivered(r) == \E m \in delivered : m.event_id = r

\* C10: if the broker is reachable from some time on, every outbox row
\* that exists at any time is eventually published to the broker.
C10_Original ==
    (<>[]brokerUp) =>
        \A r \in RowIds : [](outbox[r] # NoRow => <>RowDelivered(r))

\* C11: a step that delivers outbox row r to the broker for the first time
\* finds every earlier row of the same aggregate already delivered.
C11_Original ==
    [][\A r \in RowIds :
          (RowDelivered(r)' /\ ~RowDelivered(r))
              => \A q \in RowIds :
                    (/\ q < r
                     /\ outbox[q] # NoRow
                     /\ outbox[q].aggregate_id = outbox[r].aggregate_id)
                        => RowDelivered(q)]_vars

\* C12: every outbox row has 0 <= retry_count <= MAX_RETRIES.
C12_Original ==
    \A r \in RowIds :
        outbox[r] # NoRow
            => outbox[r].retry_count >= 0 /\ outbox[r].retry_count <= MAX_RETRIES

(***************************************************************************)
(* Properties of the payment service's event publication                   *)
(***************************************************************************)
\* The i-th accepted transition has its message on the exchange.
StatusPublished(i) ==
    /\ Len(history) >= i
    /\ \E j \in 1..Len(published) :
          /\ published[j].event_type = <<"PaymentStatus", history[i].to_status>>
          /\ published[j].payment_id = history[i].payment_id

\* C13: every accepted webhook transition to status S is eventually followed
\* by a PaymentStatus.S message for that intent on the exchange.
C13_Original ==
    \A i \in 1..MaxRequests :
        [](Len(history) >= i => <>StatusPublished(i))

(***************************************************************************)
(* Properties of the bank service                                          *)
(***************************************************************************)
RECURSIVE SumBalances(_, _)
SumBalances(table, S) ==
    IF S = {} THEN 0
    ELSE LET a == CHOOSE x \in S : TRUE
         IN  table[a].balance + SumBalances(table, S \ {a})

TotalBalance(table) == SumBalances(table, AcctIds)

\* C14: no step of a transfer or of a reversal (a step that opens no
\* account) changes the sum of the balances over all accounts.
C14_Original ==
    [][(\A a \in AcctIds : accounts[a] = NoAccount => accounts'[a] = NoAccount)
          => TotalBalance(accounts') = TotalBalance(accounts)]_vars

TransfersOf(k) ==
    {x \in TxIds : ledger[x] # NoEntry /\ ledger[x].key = k}

\* C15: for every idempotency key k at most one transfer is committed on
\* account of k, and every request with key k that is answered with a
\* transaction is answered with that one.
C15_Original ==
    \A k \in BankKeys :
        /\ Cardinality(TransfersOf(k)) <= 1
        /\ \A r \in treturned[k] : r.code = 201 => r.tx \in TransfersOf(k)

OpensAccount ==
    \E a \in AcctIds : accounts[a] = NoAccount /\ accounts'[a] # NoAccount

Written(a) ==
    /\ accounts'[a].version > 1
    /\ accounts'[a].status = accounts[a].status
    /\ accounts'[a].currency = accounts[a].currency

\* C16: a transfer is committed whole or not at all.  A step that changes
\* an existing account adds a COMPLETED TRANSFER row to the ledger and
\* changes no account but that row's two, debiting the one by the row's
\* amount and crediting the other; a step that adds a row to the ledger
\* adds one such row and writes both its accounts; no other step touches
\* the accounts, and no row is ever left PENDING or FAILED.
C16_Step ==
    ~OpensAccount =>
        /\ (accounts' # accounts \/ nextTx' # nextTx) =>
              /\ nextTx' = nextTx + 1
              /\ LET e == ledger'[nextTx]
                 IN  /\ e.transaction_type = "TRANSFER"
                     /\ e.status = "COMPLETED"
                     /\ e.from_account_id # e.to_account_id
                     /\ accounts'[e.from_account_id].balance
                           = e.from_before - e.amount
                     /\ accounts'[e.to_account_id].balance
                           = e.to_before + e.amount
                     /\ Written(e.from_account_id) /\ Written(e.to_account_id)
                     /\ \A a \in AcctIds \ {e.from_account_id, e.to_account_id} :
                           accounts'[a] = accounts[a]
        /\ \A h \in TransferHandlers :
              (tpc[h] = "execute" /\ tpc'[h] = "idle")
                  => UNCHANGED <<accounts, ledger>>

C16_Rows ==
    \A x \in TxIds :
        ledger[x] # NoEntry => ledger[x].status \in {"COMPLETED", "REVERSED"}

C16_Theorem == [](C16_Rows) /\ [][C16_Step]_vars

C16_Witness ==
    \E k \in TransferKeys :
        /\ TransferError(500, "Transfer failed") \in treturned[k]
        /\ nextTx = 2
        /\ ledger[1].key # k
        /\ accounts[ledger[1].to_account_id].balance
              = ledger[1].to_before + ledger[1].amount

\* C17: no two transfer handlers ever hold one account's row lock each
\* while waiting for the other's.
C17_Original ==
    \A h \in TransferHandlers : ~Deadlocked(h)

\* What makes a transfer invalid, as the claim lists it.
InvalidTransfer(from_account, to_account, amount) ==
    \/ from_account.status # "ACTIVE"
    \/ to_account.status # "ACTIVE"
    \/ from_account.currency # to_account.currency
    \/ from_account.id = to_account.id
    \/ from_account.balance < amount

\* C18: a handler that finds both accounts and an invalid transfer answers
\* 400, and a step that answers 400 changes no account and no ledger row.
C18_Theorem ==
    [][\A h \in TransferHandlers :
          /\ (/\ tpc[h] = "execute" /\ tpc'[h] # "execute"
              /\ accounts[treq[h].from] # NoAccount
              /\ accounts[treq[h].to] # NoAccount
              /\ InvalidTransfer(accounts[treq[h].from], accounts[treq[h].to],
                                 treq[h].amount))
                => /\ TransferError(400, "invalid") \in treturned'[treq[h].key]
                   /\ tpc'[h] = "idle"
          /\ (tpc[h] # "idle" /\ tpc'[h] = "idle"
              /\ TransferError(400, "invalid") \in treturned'[treq[h].key]
              /\ TransferError(400, "invalid") \notin treturned[treq[h].key])
                => UNCHANGED <<accounts, ledger, nextTx>>]_vars

C18_Witness ==
    /\ \E k \in BankKeys : TransferError(400, "invalid") \in treturned[k]
    /\ \E x \in TxIds : ledger[x].status = "COMPLETED"
    /\ \E a \in AcctIds : accounts[a] # NoAccount /\ accounts[a].balance = 0

\* C19: every ACTIVE account has balance >= 0.
C19_Original ==
    \A a \in AcctIds :
        accounts[a].status = "ACTIVE" => accounts[a].balance >= 0

\* The reverser working on x holds the two account rows as now committed.
ReversingFresh(x) ==
    \E r \in Reversers :
        /\ rpc[r] = "execute" /\ rtx[r] = x
        /\ rfrom[r] = accounts[ledger[x].from_account_id]
        /\ rto[r] = accounts[ledger[x].to_account_id]

\* Nothing has changed the two balances since transfer x was committed.
Untouched(x) ==
    /\ ledger[x].reversal_of = 0
    /\ accounts[ledger[x].from_account_id].balance
          = ledger[x].from_before - ledger[x].amount
    /\ accounts[ledger[x].to_account_id].balance
          = ledger[x].to_before + ledger[x].amount

\* C20: when a completed transfer x of X from A to B is reversed and nothing
\* else has touched A or B since x was committed, the reversal's commit
\* returns both balances to their values before x and adds a COMPLETED
\* TRANSFER of X from B to A; and an original is marked REVERSED only by
\* its own reversal, after that row was committed.
C20_Step ==
    /\ \A x \in TxIds :
          (/\ nextTx' # nextTx
           /\ ledger'[nextTx].reversal_of = x
           /\ Untouched(x) /\ ReversingFresh(x))
              => /\ accounts'[ledger[x].from_account_id].balance
                       = ledger[x].from_before
                 /\ accounts'[ledger[x].to_account_id].balance
                       = ledger[x].to_before
                 /\ ledger'[nextTx].transaction_type = "TRANSFER"
                 /\ ledger'[nextTx].status = "COMPLETED"
                 /\ ledger'[nextTx].amount = ledger[x].amount
                 /\ ledger'[nextTx].from_account_id = ledger[x].to_account_id
                 /\ ledger'[nextTx].to_account_id = ledger[x].from_account_id
    /\ \A x \in TxIds :
          (ledger[x].status = "COMPLETED" /\ ledger'[x].status = "REVERSED")
              => \E y \in TxIds :
                    /\ ledger[y].reversal_of = x
                    /\ ledger[y].amount = ledger[x].amount

C20_Theorem == [][C20_Step]_vars

C20_Witness ==
    /\ nextTx = 3
    /\ ledger[1].status = "REVERSED"
    /\ ledger[2].reversal_of = 1
    /\ ledger[2].status = "COMPLETED"
    /\ accounts[ledger[1].from_account_id].balance = ledger[1].from_before
    /\ accounts[ledger[1].to_account_id].balance = ledger[1].to_before
    /\ ledger[1].from_before = 2

\* C21: no ledger entry is the reversal of an entry that is itself the
\* reversal of another: reverse_transaction never succeeds on the product of
\* a reversal.
C21_Original ==
    \A y \in TxIds :
        ledger[y].reversal_of # 0
            => ledger[ledger[y].reversal_of].reversal_of = 0

\* C25: two transfers committed for requests without X-Idempotency-Key whose
\* bodies agree on from, to and amount were handled under the same derived
\* key (the second request is a replay of the first, not a new transfer).
C25_Original ==
    \A x \in TxIds, y \in TxIds :
        (/\ ledger[x].key \in DerivedKeys /\ ledger[y].key \in DerivedKeys
         /\ ledger[x].from_account_id = ledger[y].from_account_id
         /\ ledger[x].to_account_id = ledger[y].to_account_id
         /\ ledger[x].amount = ledger[y].amount)
            => ledger[x].key = ledger[y].key

\* C29: whenever the ledger holds a transfer committed for key k, the
\* transfer_idempotency table holds a record for k.
C29_Original ==
    \A x \in TxIds :
        (ledger[x] # NoEntry /\ ledger[x].key # 0) => bL2[ledger[x].key] # 0

\* C30: every refusal of a transfer (failed validation, missing account) is
\* answered 400, and a record is stored under the request's key.
C30_Original ==
    \A k \in TransferKeys :
        \A r \in treturned[k] :
            r.code \in {400, 404} => r.code = 400 /\ bL2[k] # 0

(***************************************************************************)
(* Properties of the webhook's processing path                             *)
(***************************************************************************)
\* Handler h leaves the SELECT ... FOR UPDATE step having found the row of
\* the intent its event names.
Decides(h) ==
    /\ pc[h] = "select" /\ pc'[h] # "select"
    /\ payments[hev[h].intent] # NoPay

\* C26: a webhook that missed both idempotency layers and found its intent
\* is decided in this order.  An event older than updated_at gets 200
\* ignored and changes nothing, whatever status it proposes; otherwise a
\* status outside the successors of the current one gets 400 rejected and
\* changes nothing; otherwise (a timestamp equal to updated_at included)
\* the transition is written with the event's status and timestamp, and the
\* response built for it is 200 processed.
C26_Step ==
    \A h \in Handlers :
        /\ Decides(h) =>
              LET p   == hev[h].intent
                  pay == payments[p]
                  ev  == hev[h]
              IN  IF ev.ts < pay.updated_at
                  THEN /\ hresp'[h] = IgnoredResp
                       /\ hresp'[h].code = 200
                       /\ UNCHANGED <<payments, history>>
                  ELSE IF ev.status \notin VALID_TRANSITIONS[pay.status]
                  THEN /\ hresp'[h].code = 400
                       /\ hresp'[h].kind = "rejected"
                       /\ UNCHANGED <<payments, history>>
                  ELSE /\ payments'[p].status = ev.status
                       /\ payments'[p].updated_at = ev.ts
                       /\ payments'[p].version = pay.version + 1
                       /\ Len(history') = Len(history) + 1
                       /\ pc'[h] = "refresh"
        /\ (pc[h] = "publish" /\ pc'[h] # "publish")
              => hresp'[h].code = 200 /\ hresp'[h].kind = "processed"

\* C26: every step of a webhook handler decides in that order: stale first
\* (strictly older than updated_at), then the transition check, then the
\* write of the transition.
C26_Theorem == [][C26_Step]_vars

\* A handler has built the ignored response for an event whose status is
\* not a successor of the row's status.
C26_Witness ==
    \E h \in Handlers :
        /\ pc[h] = "save_l1"
        /\ hresp[h] = IgnoredResp
        /\ hev[h].ts < payments[hev[h].intent].updated_at
        /\ ~validate_state_transition(payments[hev[h].intent].status,
                                      hev[h].status)

\* C27: a step by which a handler answers 500 leaves no entry for the
\* request's key in Redis or in idempotency_keys.
C27_Original ==
    [][\A h \in Handlers :
          (/\ pc[h] # "idle" /\ pc'[h] = "idle"
           /\ ErrorResp \in returned'[hkey[h]]
           /\ ErrorResp \notin returned[hkey[h]])
              => L1'[hkey[h]] = NoResp /\ L2'[hkey[h]] = NoResp]_vars

(***************************************************************************)
(* Properties of the donation status and of the outbox rows                *)
(***************************************************************************)
\* C24: no step changes the status of a donation that is COMPLETED, FAILED
\* or REFUNDED.
C24_Original ==
    [][\A d \in DonationIds :
          donations[d].status \in {"COMPLETED", "FAILED", "REFUNDED"}
              => donations'[d].status = donations[d].status]_vars

\* Poller i commits the outcome of the event at the head of its batch.
CommitsOutcome(i) ==
    /\ ppc[i] = "commit" /\ ppc'[i] # "commit"
    /\ outbox'[Head(batch[i])] # NoRow

\* C28: processed_at is set only by the commit of a poller whose publish of
\* that row succeeded, the message being on the exchange; the commit that
\* follows a failed publish leaves processed_at as it was and makes the
\* row's retry_count one more than it was; and a poller publishes only with
\* nothing of an earlier row left to commit.
C28_Original ==
    [][/\ \A r \in RowIds :
             (/\ outbox[r] # NoRow /\ outbox'[r] # NoRow
              /\ outbox[r].processed_at = "null"
              /\ outbox'[r].processed_at # "null")
                 => /\ RowDelivered(r)
                    /\ \E i \in Pollers :
                          CommitsOutcome(i) /\ Head(batch[i]) = r /\ psuccess[i]
       /\ \A i \in Pollers :
             (CommitsOutcome(i) /\ ~psuccess[i])
                 => LET r == Head(batch[i])
                    IN  /\ outbox'[r].processed_at = outbox[r].processed_at
                        /\ outbox'[r].retry_count = outbox[r].retry_count + 1
       /\ \A i \in Pollers :
             (ppc[i] = "publish" /\ ppc'[i] = "commit")
                 => \A r \in RowIds : rowlock[r] = i => r \in SeqToSet(batch[i])
      ]_vars

(***************************************************************************)
(* Properties of the totals and notification services                      *)
(***************************************************************************)
\* The totals count donation d: they are the aggregate over a set of
\* donations that holds d.
Includes(data, d) ==
    \E S \in SUBSET CampaignDonations :
        /\ d \in S
        /\ data.total_donations = Cardinality(S)
        /\ data.total_amount = SumAmounts(S)

\* C22: the first normal-mode GET started after a donation had become
\* COMPLETED and its PaymentStatus.CAPTURED event had been handled returns
\* totals that count the donation.
C22_Original ==
    [][\A g \in Getters :
          (gpc[g] # "idle" /\ gpc'[g] = "idle" /\ ~grt[g])
              => \A d \in gseen[g] : Includes(ganswer'[g], d)]_vars

\* C23: for each donation and event kind, at most one confirmation email is
\* sent.
C23_Original ==
    \A m \in NotifMessages : emails[m] <= 1

(***************************************************************************)
(* Properties of the tiers of get_campaign_totals                          *)
(***************************************************************************)
\* `data` holds the count and the sum of the donations now COMPLETED.
IsRecount(data) ==
    LET completed == {d \in CampaignDonations : tdon[d] = "COMPLETED"}
    IN  /\ data.total_donations = Cardinality(completed)
        /\ data.total_amount = SumAmounts(completed)

\* C31: a normal request returns the Redis entry when there is one;
\* otherwise it takes the view's row when there is one, otherwise the
\* recount, and stores what it took in Redis with cache_ttl before returning
\* it.  A real-time request returns the recount of the COMPLETED donations
\* and never reads or writes Redis.
C31_Step ==
    \A g \in Getters :
        /\ (gpc[g] = "idle" /\ gpc'[g] # "idle")
              => gpc'[g] = IF grt'[g] THEN "recount" ELSE "cache"
        /\ (gpc[g] # gpc'[g] /\ grt'[g])
              => /\ UNCHANGED <<tcache, tttl>>
                 /\ gpc'[g] \in {"recount", "idle"}
                 /\ gpc'[g] = "idle" => IsRecount(ganswer'[g])
        /\ (gpc[g] = "cache" /\ gpc'[g] # "cache")
              => IF tcache # NoTotals
                 THEN /\ gpc'[g] = "idle"
                      /\ ganswer'[g] = tcache
                      /\ UNCHANGED <<tcache, tttl>>
                 ELSE gpc'[g] = "view"
        /\ (gpc[g] = "view" /\ gpc'[g] # "view")
              => IF tview # NoTotals
                 THEN gdata'[g] = tview /\ gpc'[g] = "fill"
                 ELSE gpc'[g] = "recount"
        /\ (gpc[g] = "recount" /\ gpc'[g] # "recount" /\ ~grt[g])
              => IsRecount(gdata'[g]) /\ gpc'[g] = "fill"
        /\ (gpc[g] = "fill" /\ gpc'[g] # "fill")
              => /\ tcache' = gdata[g]
                 /\ tttl' = cache_ttl
                 /\ ganswer'[g] = gdata[g]
                 /\ gpc'[g] = "idle"

\* C31: every step of a GET handler follows the tier order above.
C31_Theorem == [][C31_Step]_vars

\* A normal request has returned the view's row and left it in Redis with
\* its expiry, while a donation completed since the refresh is not counted
\* by it (the row, not a recount, was served).
C31_Witness ==
    \E g \in Getters :
        /\ gpc[g] = "idle" /\ ~grt[g]
        /\ ganswer[g] # NoTotals
        /\ ganswer[g] = tview
        /\ tcache = ganswer[g] /\ tttl = cache_ttl
        /\ ~IsRecount(ganswer[g])

\* C32: the data_source of a response names the tier that served it: redis
\* for an answer read from Redis, materialized_view for the view's row,
\* realtime for a recount.
C32_Original ==
    [][\A g \in Getters :
          (gpc[g] # "idle" /\ gpc'[g] = "idle")
              => ganswer'[g].data_source =
                    CASE gpc[g] = "cache" -> "redis"
                      [] gpc[g] = "recount" -> "realtime"
                      [] OTHER -> gdata[g].data_source]_vars

(***************************************************************************)
(* Properties of the consumers' acknowledgements                           *)
(***************************************************************************)
\* C33: a delivery of a message whose body cannot be decoded takes the
\* message out of the queue (it is acknowledged, not requeued), so the
\* callback does not receive it again.
C33_Original ==
    [][npoison' # npoison
          => nqueue'[Undecodable] = nqueue[Undecodable] - 1]_vars

(***************************************************************************)
(* Properties of the webhook's idempotency records                         *)
(***************************************************************************)
\* C34: when the handler of an accepted transition ends at the Redis write
\* of save_idempotency_record (the write failed), the transition stands, the
\* idempotency_keys table holds a record for the key and the 200 processed
\* response has been returned.
C34_Original ==
    [][\A h \in Handlers :
          (/\ pc[h] = "save_l1" /\ pc'[h] = "idle"
           /\ hresp[h].kind = "processed")
              => /\ payments' = payments
                 /\ L2'[hkey[h]] # NoResp
                 /\ hresp[h] \in returned'[hkey[h]]]_vars

(***************************************************************************)
(* Properties of the outbox pollers' row locks                             *)
(***************************************************************************)
\* C35: a row pending in one poller's batch is locked by that poller and is
\* in no other poller's batch.
C35_Original ==
    \A i \in Pollers :
        \A r \in SeqToSet(batch[i]) :
            /\ rowlock[r] = i
            /\ \A j \in Pollers \ {i} : r \notin SeqToSet(batch[j])

\* C36: for every idempotency key, when Redis and idempotency_keys both
\* hold a response for it, they hold the same response.
C36_Original ==
    \A k \in DOMAIN L1 :
        (L1[k] # NoResp /\ L2[k] # NoResp) => L1[k] = L2[k]

(***************************************************************************)
(* Properties of the payment audit trail                                   *)
(***************************************************************************)
\* The payment_state_history rows of intent p.
HistoryOf(p) == {i \in 1..Len(history) : history[i].payment_id = p}

\* C37: every intent has version - 1 history rows, and the row with the
\* highest version names the intent's current status as its to_status.
C37_Original ==
    \A p \in IntentIds :
        payments[p] # NoPay
            => /\ Cardinality(HistoryOf(p)) = payments[p].version - 1
               /\ \A i \in HistoryOf(p) :
                     (\A j \in HistoryOf(p) :
                         history[j].version <= history[i].version)
                        => history[i].to_status = payments[p].status

(***************************************************************************)
(* Properties of reversals and of concurrent status updates                *)
(***************************************************************************)
\* The committed reversals of ledger entry x.
ReversalsOf(x) == {y \in TxIds : ledger[y] # NoEntry /\ ledger[y].reversal_of = x}

\* C38: every ledger entry has at most one committed reversal, and it is
\* REVERSED exactly when it has one.
C38_Original ==
    \A x \in TxIds :
        ledger[x] # NoEntry
            => /\ Cardinality(ReversalsOf(x)) <= 1
               /\ ledger[x].status = "REVERSED" <=> ReversalsOf(x) # {}

(***************************************************************************)
(* Properties of the gateway's retries                                     *)
(***************************************************************************)
\* C39: with the gateway delivering AUTHORIZED and CAPTURED for an intent in
\* any order and retrying each under its key, the intent eventually is
\* CAPTURED, the status of the latest event.
C39_Original ==
    <>(payments[1] # NoPay /\ payments[1].status = "CAPTURED")

\* The committed status updates of donation d: each commits one
\* DonationStatusChanged event with it.
StatusUpdatesOf(d) ==
    {r \in RowIds : /\ outbox[r] # NoRow
                    /\ outbox[r].aggregate_id = d
                    /\ outbox[r].event_type[1] = "DonationStatusChanged"}

\* C40: after n committed status updates of a donation its version is
\* 1 + n.
C40_Original ==
    \A d \in DonationIds :
        donations[d] # NoDonation
            => donations[d].version = 1 + Cardinality(StatusUpdatesOf(d))
====
